---- MODULE Spec2Model ----
(***************************************************************************)
(* The config.plist editor page of OpCore-Simplify                         *)
(* (Scripts/gui/pages/config_editor_page.py): the plist tree widget, the   *)
(* loading of a document and the OC Snapshot that reconciles ACPI.Add,     *)
(* Kernel.Add, UEFI.Drivers and Misc.Tools with the folders on disk.       *)
(*                                                                         *)
(* A Python str is a sequence of one-character strings, so that lower(),   *)
(* endswith(), sorting and basename() are computed, not assumed.  A plist  *)
(* value is a tagged record [t, v]; an OrderedDict is the sequence of its  *)
(* [k, v] pairs.  A directory is a node whose kids stand in the order the  *)
(* file system enumerates them.                                            *)
(***************************************************************************)
EXTENDS Integers, Sequences, FiniteSets, TLC

VARIABLES
    disk,          \* the folder on disk that the directory dialog returns
    config_plist,  \* the config.plist on disk: [parses, plist], what its bytes hold
    tree,          \* PlistTreeWidget: the items under invisibleRootItem()
    plist_data,    \* ConfigEditorPage.plist_data (None before a load)
    current_file,  \* ConfigEditorPage.current_file (None before a load)
    buttons,       \* enabled state of save / save as / snapshot / clean snapshot
    message,       \* the last InfoBar or MessageBox shown: [title, detail]
    last,          \* history of the last handler that ran past its dialog:
                   \* [op, clean, outcome], the tree_data a snapshot started
                   \* from (before), and whether a completed MERGE snapshot
                   \* directly followed a completed MERGE snapshot (again)
    handler_data,  \* tree_data of _perform_snapshot while a section handler
                   \* is followed statement by statement (None otherwise)
    locals,        \* the local variables of that handler and where it stands
    build_page,    \* BuildPage (Scripts/gui/pages/build_page.py): its flags, the
                   \* build button, the cards, the activity feed and the build log
    controller,    \* what BuildPage reads from and hands to its controller
    console_page,  \* ConsolePage (Scripts/gui/pages/console_page.py)
    copy_plist     \* a second file on disk, copy.plist, that Save As can name:
                   \* [parses, plist] (it parses no more than a missing file
                   \* before it is written)

vars == <<disk, config_plist, tree, plist_data, current_file, buttons, message, last,
          handler_data, locals,
         build_page, controller, console_page, copy_plist>>

\* the variables of the config editor page, and those of the other pages
editor == <<disk, config_plist, tree, plist_data, current_file, buttons, message, last,
            handler_data, locals, copy_plist>>
others == <<build_page, controller, console_page>>

(***************************************************************************)
(* Strings                                                                 *)
(***************************************************************************)
UpperCase == <<"A","B","C","D","E","F","G","H","I","J","K","L","M",
               "N","O","P","Q","R","S","T","U","V","W","X","Y","Z">>
LowerCase == <<"a","b","c","d","e","f","g","h","i","j","k","l","m",
               "n","o","p","q","r","s","t","u","v","w","x","y","z">>
DigitChars == <<"0","1","2","3","4","5","6","7","8","9">>

\* The code point of a character (ASCII), as Python's string comparison uses it.
OrdOf(c) ==
    IF \E i \in 1..26 : UpperCase[i] = c
    THEN 64 + (CHOOSE i \in 1..26 : UpperCase[i] = c)
    ELSE IF \E i \in 1..26 : LowerCase[i] = c
    THEN 96 + (CHOOSE i \in 1..26 : LowerCase[i] = c)
    ELSE IF \E i \in 1..10 : DigitChars[i] = c
    THEN 47 + (CHOOSE i \in 1..10 : DigitChars[i] = c)
    ELSE CASE c = " " -> 32
           [] c = "-" -> 45
           [] c = "." -> 46
           [] c = "/" -> 47
           [] c = "_" -> 95
           [] c = "\n" -> 10
           [] c = ":" -> 58
           [] c = "[" -> 91
           [] c = "]" -> 93

CharSet == {UpperCase[i] : i \in 1..26} \cup {LowerCase[i] : i \in 1..26}
           \cup {DigitChars[i] : i \in 1..10}
           \cup {" ", "-", ".", "/", "_", "\n", ":", "[", "]"}

OrdTable == [c \in CharSet |-> OrdOf(c)]

Ord(c) == OrdTable[c]

\* str.lower() on one character
LowerChar(c) == IF Ord(c) \in 65..90 THEN LowerCase[Ord(c) - 64] ELSE c

\* str.lower()
RECURSIVE StrLower(_)
StrLower(s) == IF s = <<>> THEN <<>>
               ELSE <<LowerChar(Head(s))>> \o StrLower(Tail(s))

\* str.startswith(prefix)
StartsWith(s, prefix) ==
    /\ Len(s) >= Len(prefix)
    /\ SubSeq(s, 1, Len(prefix)) = prefix

\* str.endswith(suffix)
EndsWith(s, suffix) ==
    /\ Len(s) >= Len(suffix)
    /\ SubSeq(s, Len(s) - Len(suffix) + 1, Len(s)) = suffix

\* a < b for two Python strings (code point order, a proper prefix is smaller)
StrLess(a, b) ==
    \E i \in 1..(Len(b)) :
        /\ i <= Len(a) + 1
        /\ \A j \in 1..(i - 1) : a[j] = b[j]
        /\ \/ i = Len(a) + 1
           \/ i <= Len(a) /\ Ord(a[i]) < Ord(b[i])

\* sorted(names, key=lambda x: x.lower()): stable insertion by the lowered key
RECURSIVE InsertByLower(_, _)
InsertByLower(sorted, x) ==
    IF sorted = <<>> THEN <<x>>
    ELSE IF StrLess(StrLower(x), StrLower(Head(sorted)))
         THEN <<x>> \o sorted
         ELSE <<Head(sorted)>> \o InsertByLower(Tail(sorted), x)

RECURSIVE SortedByLower(_)
SortedByLower(names) ==
    IF names = <<>> THEN <<>>
    ELSE InsertByLower(SortedByLower(SubSeq(names, 1, Len(names) - 1)),
                       names[Len(names)])

\* os.path.relpath(os.path.join(root, name), top).replace("\\", "/"):
\* the components below top joined by "/"
RECURSIVE JoinPath(_)
JoinPath(parts) ==
    IF parts = <<>> THEN <<>>
    ELSE IF Len(parts) = 1 THEN parts[1]
    ELSE parts[1] \o <<"/">> \o JoinPath(Tail(parts))

\* os.path.basename(path): what follows the last "/"
RECURSIVE Basename(_)
Basename(path) ==
    IF \E i \in 1..Len(path) : path[i] = "/"
    THEN Basename(Tail(path))
    ELSE path

\* x in list
InList(x, list) == \E i \in 1..Len(list) : list[i] = x

(***************************************************************************)
(* Plist values                                                            *)
(***************************************************************************)
Str(s) == [t |-> "str", v |-> s]
Bool(b) == [t |-> "bool", v |-> b]
Num(n) == [t |-> "int", v |-> n]
Data(bytes) == [t |-> "data", v |-> bytes]
List(items) == [t |-> "list", v |-> items]
Dict(pairs) == [t |-> "dict", v |-> pairs]
KV(key, value) == [k |-> key, v |-> value]
None == [t |-> "none", v |-> <<>>]

\* isinstance(x, dict)
IsDict(x) == x.t = "dict"

\* key in d
DictHas(d, key) == \E i \in 1..Len(d.v) : d.v[i].k = key

\* d[key]
DictGet(d, key) == d.v[CHOOSE i \in 1..Len(d.v) : d.v[i].k = key].v

\* d.get(key, default)
DictGetOr(d, key, default) == IF DictHas(d, key) THEN DictGet(d, key) ELSE default

\* d[key] = value on an OrderedDict: in place when the key exists, else at the end
DictSet(d, key, value) ==
    IF DictHas(d, key)
    THEN Dict([i \in 1..Len(d.v) |->
                  IF d.v[i].k = key THEN KV(key, value) ELSE d.v[i]])
    ELSE Dict(Append(d.v, KV(key, value)))

\* bytes.lower(): the ASCII capitals of a byte string
BytesLower(bytes) ==
    [i \in 1..Len(bytes) |-> IF bytes[i] \in 65..90 THEN bytes[i] + 32 ELSE bytes[i]]

\* whether value.lower() exists (str and bytes); on anything else it raises
HasLower(value) == value.t \in {"str", "data"}

\* value.lower()
Lowered(value) == IF value.t = "str" THEN Str(StrLower(value.v))
                  ELSE Data(BytesLower(value.v))

(***************************************************************************)
(* The file system below the selected folder                               *)
(***************************************************************************)
\* what plistlib.load makes of a file: whether it parses, whether the result
\* has the key CFBundleIdentifier, and CFBundleExecutable (none or one name)
NoContent == [parses |-> FALSE, id |-> FALSE, exe |-> <<>>]

\* os.walk(top): top first, then each sub-directory in enumeration order;
\* root is the list of components from top
RECURSIVE OsWalk(_, _)
OsWalk(top, root) ==
    LET dirs == SelectSeq(top.kids, LAMBDA n : n.kind = "dir")
        files == SelectSeq(top.kids, LAMBDA n : n.kind = "file")
        RECURSIVE Below(_)
        Below(i) == IF i > Len(dirs) THEN <<>>
                    ELSE OsWalk(dirs[i], Append(root, dirs[i].name)) \o Below(i + 1)
    IN <<[root |-> root, dirs |-> dirs, files |-> files]>> \o Below(1)

\* the files of a walk, in walk order, each with its name and its path
\* relative to top
RECURSIVE WalkFiles(_)
WalkFiles(walk) ==
    IF walk = <<>> THEN <<>>
    ELSE LET w == Head(walk)
         IN [i \in 1..Len(w.files) |->
                [name |-> w.files[i].name,
                 rel_path |-> JoinPath(Append(w.root, w.files[i].name))]]
            \o WalkFiles(Tail(walk))

\* the sub-directories of a walk, each directory's own sorted by the lowered
\* name (sorted(dirs, key=lambda x: x.lower())), the directories in walk order
RECURSIVE WalkDirs(_)
WalkDirs(walk) ==
    IF walk = <<>> THEN <<>>
    ELSE LET w == Head(walk)
             names == SortedByLower([i \in 1..Len(w.dirs) |-> w.dirs[i].name])
         IN [i \in 1..Len(names) |->
                [name |-> names[i],
                 node |-> w.dirs[CHOOSE j \in 1..Len(w.dirs) : w.dirs[j].name = names[i]],
                 rel_path |-> JoinPath(Append(w.root, names[i]))]]
            \o WalkDirs(Tail(walk))

\* os.path.isdir(os.path.join(folder, name))
IsDir(folder, name) ==
    \E i \in 1..Len(folder.kids) :
        folder.kids[i].name = name /\ folder.kids[i].kind = "dir"

\* the directory os.path.join(folder, name)
SubDir(folder, name) ==
    folder.kids[CHOOSE i \in 1..Len(folder.kids) :
                    folder.kids[i].name = name /\ folder.kids[i].kind = "dir"]

\* the node at os.path.join(node, *parts): none (<<>>) or one (<<n>>)
RECURSIVE NodeAt(_, _)
NodeAt(node, parts) ==
    IF parts = <<>> THEN <<node>>
    ELSE IF \E i \in 1..Len(node.kids) : node.kids[i].name = Head(parts)
    THEN NodeAt(node.kids[CHOOSE i \in 1..Len(node.kids) :
                              node.kids[i].name = Head(parts)], Tail(parts))
    ELSE <<>>

s_aml == <<".", "a", "m", "l">>
s_bin == <<".", "b", "i", "n">>
s_efi == <<".", "e", "f", "i">>
s_kext == <<".", "k", "e", "x", "t">>
s_Info_plist == <<"I", "n", "f", "o", ".", "p", "l", "i", "s", "t">>
s_Contents == <<"C", "o", "n", "t", "e", "n", "t", "s">>
s_MacOS == <<"M", "a", "c", "O", "S">>
s_ACPI == <<"A", "C", "P", "I">>
s_Drivers == <<"D", "r", "i", "v", "e", "r", "s">>
s_Kexts == <<"K", "e", "x", "t", "s">>
s_Tools == <<"T", "o", "o", "l", "s">>
s_OC == <<"O", "C">>
s_EFI == <<"E", "F", "I">>
s_Any == <<"A", "n", "y">>
s_Auto == <<"A", "u", "t", "o">>

\* not name.startswith(".") and name.lower().endswith((".aml", ".bin"))
AcpiAccepts(name) ==
    /\ ~StartsWith(name, <<".">>)
    /\ \/ EndsWith(StrLower(name), s_aml)
       \/ EndsWith(StrLower(name), s_bin)

\* EfiAccepts that takes the names that start with a dot too
EfiAcceptsHidden(name) == EndsWith(StrLower(name), s_efi)

\* not name.startswith(".") and name.lower().endswith(".efi")
EfiAccepts(name) ==
    /\ ~StartsWith(name, <<".">>)
    /\ EndsWith(StrLower(name), s_efi)

RelPaths(found) == [i \in 1..Len(found) |-> found[i].rel_path]

\* new_acpi: the accepted files below the ACPI folder, in walk order
ScanAcpi(oc_acpi) ==
    RelPaths(SelectSeq(WalkFiles(OsWalk(oc_acpi, <<>>)),
                       LAMBDA f : AcpiAccepts(f.name)))

\* new_drivers: the accepted files below the Drivers folder, in walk order
ScanDrivers(oc_drivers) ==
    RelPaths(SelectSeq(WalkFiles(OsWalk(oc_drivers, <<>>)),
                       LAMBDA f : EfiAccepts(f.name)))

\* new_tools: the accepted files below the Tools folder, in walk order
ScanTools(oc_tools) ==
    RelPaths(SelectSeq(WalkFiles(OsWalk(oc_tools, <<>>)),
                       LAMBDA f : EfiAccepts(f.name)))

\* name.startswith(".") or not name.lower().endswith(".kext"): continue
KextNameAccepted(name) ==
    /\ ~StartsWith(name, <<".">>)
    /\ EndsWith(StrLower(name), s_kext)

\* the first directory of os.walk(kext_path) with a file named Info.plist:
\* none (<<>>) or its walk entry (<<w>>)
InfoPlistDir(kext) ==
    LET walk == OsWalk(kext, <<>>)
        has(w) == \E i \in 1..Len(w.files) : w.files[i].name = s_Info_plist
        hits == SelectSeq(walk, has)
    IN IF hits = <<>> THEN <<>> ELSE <<Head(hits)>>

\* KextExecPath without the test of the size
KextExecPathAnySize(kext, info_plist) ==
    IF info_plist.exe = <<>> THEN <<>>
    ELSE LET exec_name == info_plist.exe[1]
             exec_full == NodeAt(kext, <<s_Contents, s_MacOS, exec_name>>)
         IN IF exec_full # <<>>
            THEN s_Contents \o <<"/">> \o s_MacOS \o <<"/">> \o exec_name
            ELSE <<>>

\* exec_path of a kext whose Info.plist parsed to info_plist
KextExecPath(kext, info_plist) ==
    IF info_plist.exe = <<>> THEN <<>>
    ELSE LET exec_name == info_plist.exe[1]
             exec_full == NodeAt(kext, <<s_Contents, s_MacOS, exec_name>>)
         IN IF exec_full # <<>> /\ exec_full[1].size > 0
            THEN s_Contents \o <<"/">> \o s_MacOS \o <<"/">> \o exec_name
            ELSE <<>>

\* KextEntry without the test for CFBundleIdentifier
KextEntryAnyPlist(found) ==
    LET where == InfoPlistDir(found.node)
    IN IF where = <<>> THEN <<>>
       ELSE LET w == where[1]
                file == w.files[CHOOSE i \in 1..Len(w.files) :
                                    w.files[i].name = s_Info_plist]
                info_plist == file.content
            IN IF ~info_plist.parses THEN <<>>
               ELSE <<Dict(<<
                   KV("Arch", Str(s_Any)),
                   KV("BundlePath", Str(found.rel_path)),
                   KV("Comment", Str(found.name)),
                   KV("Enabled", Bool(TRUE)),
                   KV("ExecutablePath", Str(KextExecPath(found.node, info_plist))),
                   KV("MaxKernel", Str(<<>>)),
                   KV("MinKernel", Str(<<>>)),
                   KV("PlistPath", Str(JoinPath(Append(w.root, s_Info_plist))))>>)>>

\* the entry built for one directory named *.kext: none (<<>>) when it has no
\* Info.plist, when that does not parse, or when it has no CFBundleIdentifier
KextEntry(found) ==
    LET where == InfoPlistDir(found.node)
    IN IF where = <<>> THEN <<>>
       ELSE LET w == where[1]
                file == w.files[CHOOSE i \in 1..Len(w.files) :
                                    w.files[i].name = s_Info_plist]
                info_plist == file.content
            IN IF ~info_plist.parses \/ ~info_plist.id THEN <<>>
               ELSE <<Dict(<<
                   KV("Arch", Str(s_Any)),
                   KV("BundlePath", Str(found.rel_path)),
                   KV("Comment", Str(found.name)),
                   KV("Enabled", Bool(TRUE)),
                   KV("ExecutablePath", Str(KextExecPath(found.node, info_plist))),
                   KV("MaxKernel", Str(<<>>)),
                   KV("MinKernel", Str(<<>>)),
                   KV("PlistPath", Str(JoinPath(Append(w.root, s_Info_plist))))>>)>>

RECURSIVE KextEntries(_)
KextEntries(found) ==
    IF found = <<>> THEN <<>>
    ELSE KextEntry(Head(found)) \o KextEntries(Tail(found))

\* kext_list: one entry per accepted *.kext directory below the Kexts folder
ScanKexts(oc_kexts) ==
    KextEntries(SelectSeq(WalkDirs(OsWalk(oc_kexts, <<>>)),
                          LAMBDA d : KextNameAccepted(d.name)))

(***************************************************************************)
(* PlistTreeWidget                                                         *)
(***************************************************************************)
\* the marker of an item that holds no leaf value.  (For a mapping or an
\* array the widget keeps the container itself under UserRole, and
\* _get_single_item_data never reads it; column 2, the display text, is
\* never read back either.  Neither is part of the state.)
NoData == [t |-> "none", v |-> <<>>]

\* _set_item_value: column 1, the type of an item
TypeText(value) ==
    CASE value.t = "bool" -> "Boolean"
      [] value.t = "int" -> "Number"
      [] value.t = "str" -> "String"
      [] value.t = "data" -> "Data"
      [] value.t = "dict" -> "Dictionary"
      [] value.t = "list" -> "Array"
      [] OTHER -> "Unknown"

\* populate_tree(data, parent): the items made under parent
RECURSIVE PopulateTree(_)
MakeItem(key, value) ==
    [key |-> key,
     type |-> TypeText(value),
     data |-> IF value.t \in {"dict", "list"} THEN NoData ELSE value,
     kids |-> IF value.t \in {"dict", "list"} THEN PopulateTree(value) ELSE <<>>]

PopulateTree(data) ==
    IF data.t = "dict"
    THEN [i \in 1..Len(data.v) |-> MakeItem(data.v[i].k, data.v[i].v)]
    ELSE IF data.t = "list"
    THEN [i \in 1..Len(data.v) |-> MakeItem("Item " \o ToString(i - 1), data.v[i])]
    ELSE <<>>

\* _get_item_data(parent) over the children of parent, and
\* _get_single_item_data(item)
RECURSIVE GetItemData(_, _)
GetSingleItemData(item) ==
    IF item.type \in {"Dictionary", "Array"}
    THEN GetItemData(item.kids, item.type)
    ELSE item.data

GetItemData(kids, parent_type) ==
    IF parent_type = "Array"
    THEN List([i \in 1..Len(kids) |-> GetSingleItemData(kids[i])])
    ELSE LET RECURSIVE Fill(_, _)
             Fill(result, i) ==
                 IF i > Len(kids) THEN result
                 ELSE Fill(DictSet(result, kids[i].key, GetSingleItemData(kids[i])),
                           i + 1)
         IN Fill(Dict(<<>>), 1)

\* get_tree_data(): the root is taken to be a mapping
GetTreeData(items) == GetItemData(items, "Dictionary")

(***************************************************************************)
(* The four section handlers of the OC Snapshot.  Each returns             *)
(* [raised, tree_data]: whether it raised, and tree_data as it left it.    *)
(***************************************************************************)
Returned(tree_data) == [raised |-> FALSE, tree_data |-> tree_data]
Raised(tree_data) == [raised |-> TRUE, tree_data |-> tree_data]

\* EnsureList that makes the container anew when the list is missing
EnsureListFresh(tree_data, outer, inner) ==
    IF DictHas(tree_data, outer) /\ DictHas(DictGet(tree_data, outer), inner)
    THEN tree_data
    ELSE DictSet(tree_data, outer, Dict(<<KV(inner, List(<<>>))>>))

\* if outer not in tree_data: tree_data[outer] = OrderedDict()
\* if inner not in tree_data[outer]: tree_data[outer][inner] = []
EnsureList(tree_data, outer, inner) ==
    LET d == IF DictHas(tree_data, outer) THEN tree_data
             ELSE DictSet(tree_data, outer, Dict(<<>>))
    IN IF DictHas(DictGet(d, outer), inner) THEN d
       ELSE DictSet(d, outer, DictSet(DictGet(d, outer), inner, List(<<>>)))

\* the same two lines raise when tree_data[outer] is there and is no mapping
EnsureRaises(tree_data, outer) ==
    DictHas(tree_data, outer) /\ ~IsDict(DictGet(tree_data, outer))

\* tree_data[outer][inner]
SectionList(tree_data, outer, inner) == DictGet(DictGet(tree_data, outer), inner).v

\* tree_data[outer][inner] = list
SetSectionList(tree_data, outer, inner, list) ==
    DictSet(tree_data, outer, DictSet(DictGet(tree_data, outer), inner, List(list)))

\* x.get(key, "")
PathField(x, key) == DictGetOr(x, key, Str(<<>>))

\* a variant that takes no entry of the list as existing
ExistingPathsNone(add, key) == <<>>

\* [x.get(key, "").lower() for x in add if isinstance(x, dict)]
ExistingPaths(add, key) ==
    LET dicts == SelectSeq(add, IsDict)
    IN [i \in 1..Len(dicts) |-> Lowered(PathField(dicts[i], key))]

\* that comprehension raises when some x.get(key, "") has no lower()
ExistingPathsRaise(add, key) ==
    \E i \in 1..Len(add) : IsDict(add[i]) /\ ~HasLower(PathField(add[i], key))

\* [x.lower() for x in found]
LoweredPaths(found) == [i \in 1..Len(found) |-> Str(StrLower(found[i]))]

\* a variant whose Comment is the relative path, not the base name
AcpiNewEntryPathComment(aml) ==
    Dict(<<KV("Comment", Str(aml)),
           KV("Enabled", Bool(TRUE)),
           KV("Path", Str(aml))>>)

\* ---- _snapshot_acpi
AcpiNewEntry(aml) ==
    Dict(<<KV("Comment", Str(Basename(aml))),
           KV("Enabled", Bool(TRUE)),
           KV("Path", Str(aml))>>)

\* if aml.lower() not in existing_paths
AcpiIsNew(aml, existing_paths) == ~InList(Str(StrLower(aml)), existing_paths)

\* for aml in sorted(new_acpi, key=lambda x: x.lower()): ... add.append(new_entry)
RECURSIVE AcpiAppend(_, _, _)
AcpiAppend(add, sorted_acpi, existing_paths) ==
    IF sorted_acpi = <<>> THEN add
    ELSE AcpiAppend(IF AcpiIsNew(Head(sorted_acpi), existing_paths)
                    THEN Append(add, AcpiNewEntry(Head(sorted_acpi)))
                    ELSE add,
                    Tail(sorted_acpi), existing_paths)

\* a variant that compares the stored Path without lowering it
AcpiKeepsStoredCase(entry, new_acpi_lower) ==
    IsDict(entry) /\ InList(PathField(entry, "Path"), new_acpi_lower)

\* isinstance(entry, dict) and entry.get("Path", "").lower() in new_acpi_lower
AcpiKeeps(entry, new_acpi_lower) ==
    IsDict(entry) /\ InList(Lowered(PathField(entry, "Path")), new_acpi_lower)

AcpiOrder(new_acpi) == SortedByLower(new_acpi)

SnapshotAcpi(tree_data, oc_acpi, clean) ==
    IF EnsureRaises(tree_data, "ACPI") THEN Raised(tree_data)
    ELSE LET d == EnsureList(tree_data, "ACPI", "Add")
             new_acpi == ScanAcpi(oc_acpi)
             add == IF clean THEN <<>> ELSE SectionList(d, "ACPI", "Add")
         IN IF ExistingPathsRaise(add, "Path") THEN Raised(d)
            ELSE LET grown == AcpiAppend(add, AcpiOrder(new_acpi),
                                         ExistingPaths(add, "Path"))
                     new_add == SelectSeq(grown,
                                    LAMBDA entry : AcpiKeeps(entry, LoweredPaths(new_acpi)))
                 IN Returned(SetSectionList(d, "ACPI", "Add", new_add))

\* ---- _snapshot_kexts
\* if kext["BundlePath"].lower() not in existing_bundles
KextIsNew(kext, existing_bundles) ==
    ~InList(Lowered(DictGet(kext, "BundlePath")), existing_bundles)

\* for kext in kext_list: ... add.append(kext)
RECURSIVE KextAppend(_, _, _)
KextAppend(add, kext_list, existing_bundles) ==
    IF kext_list = <<>> THEN add
    ELSE KextAppend(IF KextIsNew(Head(kext_list), existing_bundles)
                    THEN Append(add, Head(kext_list))
                    ELSE add,
                    Tail(kext_list), existing_bundles)

\* [k["BundlePath"].lower() for k in kext_list]
KextBundles(kext_list) ==
    [i \in 1..Len(kext_list) |-> Lowered(DictGet(kext_list[i], "BundlePath"))]

\* isinstance(entry, dict) and entry.get("BundlePath", "").lower() in kext_bundles
KextKeeps(entry, kext_bundles) ==
    IsDict(entry) /\ InList(Lowered(PathField(entry, "BundlePath")), kext_bundles)

\* a variant that replaces a retained entry by the scanned one
KextRefreshWhole(entry, kext_list) ==
    LET same(k) == Lowered(DictGet(k, "BundlePath"))
                       = Lowered(PathField(entry, "BundlePath"))
        matching == SelectSeq(kext_list, same)
    IN IF matching = <<>> THEN entry ELSE matching[1]

\* matching_kext = next((k for k in kext_list if ... == ...), None), then
\* entry["ExecutablePath"] and entry["PlistPath"] are set from it
KextRefresh(entry, kext_list) ==
    LET same(k) == Lowered(DictGet(k, "BundlePath"))
                       = Lowered(PathField(entry, "BundlePath"))
        matching == SelectSeq(kext_list, same)
    IN IF matching = <<>> THEN entry
       ELSE DictSet(DictSet(entry, "ExecutablePath",
                            DictGet(matching[1], "ExecutablePath")),
                    "PlistPath", DictGet(matching[1], "PlistPath"))

SnapshotKexts(tree_data, oc_kexts, clean) ==
    IF EnsureRaises(tree_data, "Kernel") THEN Raised(tree_data)
    ELSE LET d == EnsureList(tree_data, "Kernel", "Add")
             kext_list == ScanKexts(oc_kexts)
             add == IF clean THEN <<>> ELSE SectionList(d, "Kernel", "Add")
         IN IF ExistingPathsRaise(add, "BundlePath") THEN Raised(d)
            ELSE LET grown == KextAppend(add, kext_list,
                                         ExistingPaths(add, "BundlePath"))
                     kept == SelectSeq(grown,
                                 LAMBDA entry : KextKeeps(entry, KextBundles(kext_list)))
                     new_add == [i \in 1..Len(kept) |-> KextRefresh(kept[i], kext_list)]
                 IN Returned(SetSectionList(d, "Kernel", "Add", new_add))

\* ---- _snapshot_drivers
\* x.get("Path", "") if isinstance(x, dict) else x
DriverPath(x) == IF IsDict(x) THEN PathField(x, "Path") ELSE x

\* [x.get("Path", "").lower() if isinstance(x, dict) else x.lower() for x in drivers]
DriverExistingPaths(drivers) ==
    [i \in 1..Len(drivers) |-> Lowered(DriverPath(drivers[i]))]

\* that comprehension raises on an entry (or a Path) that has no lower()
DriverPathsRaise(drivers) ==
    \E i \in 1..Len(drivers) : ~HasLower(DriverPath(drivers[i]))

\* if drivers and isinstance(drivers[0], dict)
DriverWantsDict(drivers) == drivers # <<>> /\ IsDict(drivers[1])

DriverNewEntry(driver, drivers) ==
    IF DriverWantsDict(drivers)
    THEN Dict(<<KV("Arguments", Str(<<>>)),
                KV("Comment", Str(Basename(driver))),
                KV("Enabled", Bool(TRUE)),
                KV("LoadEarly", Bool(FALSE)),
                KV("Path", Str(driver))>>)
    ELSE Str(driver)

\* a variant that puts a new entry in front of the list
RECURSIVE DriverAppendFront(_, _, _)
DriverAppendFront(drivers, sorted_drivers, existing_paths) ==
    IF sorted_drivers = <<>> THEN drivers
    ELSE DriverAppendFront(IF ~InList(Str(StrLower(Head(sorted_drivers))), existing_paths)
                           THEN <<DriverNewEntry(Head(sorted_drivers), drivers)>> \o drivers
                           ELSE drivers,
                           Tail(sorted_drivers), existing_paths)

\* for driver in sorted(new_drivers, key=lambda x: x.lower()): ... drivers.append(...)
RECURSIVE DriverAppend(_, _, _)
DriverAppend(drivers, sorted_drivers, existing_paths) ==
    IF sorted_drivers = <<>> THEN drivers
    ELSE DriverAppend(IF ~InList(Str(StrLower(Head(sorted_drivers))), existing_paths)
                      THEN Append(drivers, DriverNewEntry(Head(sorted_drivers), drivers))
                      ELSE drivers,
                      Tail(sorted_drivers), existing_paths)

\* path in new_drivers_lower
DriverKeeps(entry, new_drivers_lower) ==
    InList(Lowered(DriverPath(entry)), new_drivers_lower)

\* drivers = [] if clean else tree_data["UEFI"]["Drivers"]
DriverStart(tree_data, clean) ==
    IF clean THEN <<>> ELSE SectionList(tree_data, "UEFI", "Drivers")

SnapshotDrivers(tree_data, oc_drivers, clean) ==
    IF EnsureRaises(tree_data, "UEFI") THEN Raised(tree_data)
    ELSE LET d == EnsureList(tree_data, "UEFI", "Drivers")
             new_drivers == ScanDrivers(oc_drivers)
             drivers == DriverStart(d, clean)
         IN IF DriverPathsRaise(drivers) THEN Raised(d)
            ELSE LET grown == DriverAppend(drivers, SortedByLower(new_drivers),
                                           DriverExistingPaths(drivers))
                     new_list == SelectSeq(grown,
                                     LAMBDA entry : DriverKeeps(entry, LoweredPaths(new_drivers)))
                 IN Returned(SetSectionList(d, "UEFI", "Drivers", new_list))

\* ---- _snapshot_tools
ToolNewEntry(tool) ==
    Dict(<<KV("Arguments", Str(<<>>)),
           KV("Auxiliary", Bool(TRUE)),
           KV("Comment", Str(Basename(tool))),
           KV("Enabled", Bool(TRUE)),
           KV("Flavour", Str(s_Auto)),
           KV("FullNvramAccess", Bool(FALSE)),
           KV("Path", Str(tool)),
           KV("RealPath", Bool(FALSE)),
           KV("TextMode", Bool(FALSE))>>)

\* for tool in sorted(new_tools, key=lambda x: x.lower()): ... tools.append(new_entry)
RECURSIVE ToolAppend(_, _, _)
ToolAppend(tools, sorted_tools, existing_paths) ==
    IF sorted_tools = <<>> THEN tools
    ELSE ToolAppend(IF ~InList(Str(StrLower(Head(sorted_tools))), existing_paths)
                    THEN Append(tools, ToolNewEntry(Head(sorted_tools)))
                    ELSE tools,
                    Tail(sorted_tools), existing_paths)

\* isinstance(entry, dict) and entry.get("Path", "").lower() in new_tools_lower
ToolKeeps(entry, new_tools_lower) ==
    IsDict(entry) /\ InList(Lowered(PathField(entry, "Path")), new_tools_lower)

\* if not os.path.isdir(oc_tools): return.  oc_tools is the path of a
\* directory that may not exist: none (<<>>) or one directory (<<node>>)
ToolsSkipped(oc_tools) == oc_tools = <<>>

\* a variant that ensures Misc.Tools before it looks for the Tools folder
SnapshotToolsEnsureFirst(tree_data, oc_tools, clean) ==
    IF EnsureRaises(tree_data, "Misc") THEN Raised(tree_data)
    ELSE LET d == EnsureList(tree_data, "Misc", "Tools")
         IN IF ToolsSkipped(oc_tools) THEN Returned(d)
            ELSE LET new_tools == ScanTools(oc_tools[1])
                     tools == IF clean THEN <<>> ELSE SectionList(d, "Misc", "Tools")
                     grown == ToolAppend(tools, SortedByLower(new_tools),
                                         ExistingPaths(tools, "Path"))
                     new_list == SelectSeq(grown,
                                     LAMBDA entry : ToolKeeps(entry, LoweredPaths(new_tools)))
                 IN IF ExistingPathsRaise(tools, "Path") THEN Raised(d)
                    ELSE Returned(SetSectionList(d, "Misc", "Tools", new_list))

SnapshotTools(tree_data, oc_tools, clean) ==
    IF ToolsSkipped(oc_tools) THEN Returned(tree_data)
    ELSE IF EnsureRaises(tree_data, "Misc") THEN Raised(tree_data)
    ELSE LET d == EnsureList(tree_data, "Misc", "Tools")
             new_tools == ScanTools(oc_tools[1])
             tools == IF clean THEN <<>> ELSE SectionList(d, "Misc", "Tools")
         IN IF ExistingPathsRaise(tools, "Path") THEN Raised(d)
            ELSE LET grown == ToolAppend(tools, SortedByLower(new_tools),
                                         ExistingPaths(tools, "Path"))
                     new_list == SelectSeq(grown,
                                     LAMBDA entry : ToolKeeps(entry, LoweredPaths(new_tools)))
                 IN Returned(SetSectionList(d, "Misc", "Tools", new_list))

(***************************************************************************)
(* ConfigEditorPage                                                        *)
(***************************************************************************)
\* not self.plist_data
Falsy(value) ==
    \/ value.t = "none"
    \/ value.t \in {"dict", "list", "str", "data"} /\ value.v = <<>>
    \/ value.t = "bool" /\ value.v = FALSE
    \/ value.t = "int" /\ value.v = 0

\* the required folders that os.path.isdir does not find, in the order tested
MissingIn(folder) ==
    SelectSeq(<<s_ACPI, s_Drivers, s_Kexts>>, LAMBDA name : ~IsDir(folder, name))

\* Missing without the retry in the OC sub-folder
MissingOfSelected(oc_folder) == MissingIn(oc_folder)

\* "Verify folder structure": missing as it stands before the final test,
\* after the retry in the OC sub-folder
Missing(oc_folder) ==
    IF MissingIn(oc_folder) # <<>> /\ IsDir(oc_folder, s_OC)
    THEN MissingIn(SubDir(oc_folder, s_OC))
    ELSE MissingIn(oc_folder)

\* BaseFolder that takes the OC sub-folder whenever that one is complete
BaseFolderChildFirst(oc_folder) ==
    IF IsDir(oc_folder, s_OC) /\ MissingIn(SubDir(oc_folder, s_OC)) = <<>>
    THEN SubDir(oc_folder, s_OC)
    ELSE oc_folder

\* the folder that oc_acpi, oc_drivers, oc_kexts and oc_tools lie in
BaseFolder(oc_folder) ==
    IF MissingIn(oc_folder) # <<>> /\ IsDir(oc_folder, s_OC)
    THEN SubDir(oc_folder, s_OC)
    ELSE oc_folder

\* os.path.join(base, "Tools"), a directory or not
ToolsPath(base) == IF IsDir(base, s_Tools) THEN <<SubDir(base, s_Tools)>> ELSE <<>>

\* the try block: the four handlers in turn on tree_data; an exception leaves
\* the later ones unrun
RunHandlers(tree_data, base, clean) ==
    LET acpi == SnapshotAcpi(tree_data, SubDir(base, s_ACPI), clean)
    IN IF acpi.raised THEN acpi
       ELSE LET kexts == SnapshotKexts(acpi.tree_data, SubDir(base, s_Kexts), clean)
            IN IF kexts.raised THEN kexts
               ELSE LET drivers == SnapshotDrivers(kexts.tree_data,
                                                   SubDir(base, s_Drivers), clean)
                    IN IF drivers.raised THEN drivers
                       ELSE SnapshotTools(drivers.tree_data, ToolsPath(base), clean)

NoMessage == [title |-> "", detail |-> <<>>]

\* _perform_snapshot whose handlers work on the document of the page itself
PerformSnapshotInPlace(clean, oc_folder) ==
    IF Falsy(plist_data)
    THEN /\ message' = [title |-> "No Config Loaded", detail |-> <<>>]
         /\ last' = [op |-> "snapshot", clean |-> clean, outcome |-> "no_config",
                     before |-> None, again |-> FALSE]
         /\ UNCHANGED <<disk, config_plist, tree, plist_data, current_file, buttons>>
    ELSE IF oc_folder = <<>>
    THEN UNCHANGED vars
    ELSE IF Missing(oc_folder[1]) # <<>>
    THEN /\ message' = [title |-> "Incorrect OC Folder Structure",
                        detail |-> Missing(oc_folder[1])]
         /\ last' = [op |-> "snapshot", clean |-> clean, outcome |-> "bad_folder",
                     before |-> None, again |-> FALSE]
         /\ UNCHANGED <<disk, config_plist, tree, plist_data, current_file, buttons>>
    ELSE \E tree_data \in {GetTreeData(tree)} :
         \E run \in {RunHandlers(tree_data, BaseFolder(oc_folder[1]), clean)} :
            IF run.raised
            THEN /\ message' = [title |-> "Snapshot Error", detail |-> <<>>]
                 /\ last' = [op |-> "snapshot", clean |-> clean, outcome |-> "error",
                             before |-> tree_data, again |-> FALSE]
                 /\ tree' = PopulateTree(run.tree_data)
                 /\ plist_data' = run.tree_data
                 /\ UNCHANGED <<disk, config_plist, current_file, buttons>>
            ELSE /\ tree' = PopulateTree(run.tree_data)
                 /\ plist_data' = run.tree_data
                 /\ message' = [title |-> "Snapshot Complete", detail |-> <<>>]
                 /\ last' = [op |-> "snapshot", clean |-> clean, outcome |-> "done",
                             before |-> tree_data,
                             again |-> /\ ~clean
                                       /\ last.op = "snapshot"
                                       /\ ~last.clean
                                       /\ last.outcome = "done"]
                 /\ UNCHANGED <<disk, config_plist, current_file, buttons>>

\* _perform_snapshot(clean); oc_folder is what the directory dialog returns:
\* nothing (<<>>, cancelled) or the folder (<<disk>>)
PerformSnapshot(clean, oc_folder) ==
    IF Falsy(plist_data)
    THEN /\ message' = [title |-> "No Config Loaded", detail |-> <<>>]
         /\ last' = [op |-> "snapshot", clean |-> clean, outcome |-> "no_config",
                     before |-> None, again |-> FALSE]
         /\ UNCHANGED <<disk, config_plist, tree, plist_data, current_file, buttons>>
    ELSE IF oc_folder = <<>>
    THEN UNCHANGED vars
    ELSE IF Missing(oc_folder[1]) # <<>>
    THEN /\ message' = [title |-> "Incorrect OC Folder Structure",
                        detail |-> Missing(oc_folder[1])]
         /\ last' = [op |-> "snapshot", clean |-> clean, outcome |-> "bad_folder",
                     before |-> None, again |-> FALSE]
         /\ UNCHANGED <<disk, config_plist, tree, plist_data, current_file, buttons>>
    ELSE \E tree_data \in {GetTreeData(tree)} :
         \E run \in {RunHandlers(tree_data, BaseFolder(oc_folder[1]), clean)} :
            IF run.raised
            THEN /\ message' = [title |-> "Snapshot Error", detail |-> <<>>]
                 /\ last' = [op |-> "snapshot", clean |-> clean, outcome |-> "error",
                             before |-> tree_data, again |-> FALSE]
                 /\ UNCHANGED <<disk, config_plist, tree, plist_data, current_file, buttons>>
            ELSE /\ tree' = PopulateTree(run.tree_data)
                 /\ plist_data' = run.tree_data
                 /\ message' = [title |-> "Snapshot Complete", detail |-> <<>>]
                 /\ last' = [op |-> "snapshot", clean |-> clean, outcome |-> "done",
                             before |-> tree_data,
                             again |-> /\ ~clean
                                       /\ last.op = "snapshot"
                                       /\ ~last.clean
                                       /\ last.outcome = "done"]
                 /\ UNCHANGED <<disk, config_plist, current_file, buttons>>

\* what the directory dialog can return
FolderChoices == {<<>>, <<disk>>}

\* the OC Snapshot button
OcSnapshot ==
    /\ buttons.snapshot
    /\ \E oc_folder \in FolderChoices : PerformSnapshot(FALSE, oc_folder)
    /\ UNCHANGED <<handler_data, locals, others, copy_plist>>

\* the OC Clean Snapshot button
OcCleanSnapshot ==
    /\ buttons.clean_snapshot
    /\ \E oc_folder \in FolderChoices : PerformSnapshot(TRUE, oc_folder)
    /\ UNCHANGED <<handler_data, locals, others, copy_plist>>

\* LoadConfigWith that drops the document when the file does not parse
LoadConfigWithReset(file) ==
    IF file = <<>>
    THEN UNCHANGED vars
    ELSE IF ~file[1].parses
    THEN /\ message' = [title |-> "Error Loading File", detail |-> <<>>]
         /\ last' = [op |-> "load", clean |-> FALSE, outcome |-> "error",
                     before |-> None, again |-> FALSE]
         /\ plist_data' = None
         /\ tree' = <<>>
         /\ UNCHANGED <<disk, config_plist, current_file, buttons>>
    ELSE /\ plist_data' = file[1].plist
         /\ current_file' = file[1].path
         /\ tree' = PopulateTree(file[1].plist)
         /\ buttons' = [save |-> TRUE, save_as |-> TRUE,
                        snapshot |-> TRUE, clean_snapshot |-> TRUE]
         /\ message' = [title |-> "Success", detail |-> <<>>]
         /\ last' = [op |-> "load", clean |-> FALSE, outcome |-> "done",
                     before |-> None, again |-> FALSE]
         /\ UNCHANGED <<disk, config_plist>>

\* load_config; file is what the file dialog returns and what is in the file:
\* nothing (<<>>, cancelled), or a path with its bytes, which parse or do not
LoadConfigWith(file) ==
    IF file = <<>>
    THEN UNCHANGED vars
    ELSE IF ~file[1].parses
    THEN /\ message' = [title |-> "Error Loading File", detail |-> <<>>]
         /\ last' = [op |-> "load", clean |-> FALSE, outcome |-> "error",
                     before |-> None, again |-> FALSE]
         /\ UNCHANGED <<disk, config_plist, tree, plist_data, current_file, buttons>>
    ELSE /\ plist_data' = file[1].plist
         /\ current_file' = file[1].path
         /\ tree' = PopulateTree(file[1].plist)
         /\ buttons' = [save |-> TRUE, save_as |-> TRUE,
                        snapshot |-> TRUE, clean_snapshot |-> TRUE]
         /\ message' = [title |-> "Success", detail |-> <<>>]
         /\ last' = [op |-> "load", clean |-> FALSE, outcome |-> "done",
                     before |-> None, again |-> FALSE]
         /\ UNCHANGED <<disk, config_plist>>

(***************************************************************************)
(* The folders and the documents the model runs on                         *)
(***************************************************************************)
File(name, size) ==
    [name |-> name, kind |-> "file", kids |-> <<>>, size |-> size, content |-> NoContent]
InfoPlist(content) ==
    [name |-> s_Info_plist, kind |-> "file", kids |-> <<>>, size |-> 1, content |-> content]
Dir(name, kids) ==
    [name |-> name, kind |-> "dir", kids |-> kids, size |-> 1, content |-> NoContent]

\* the groups of cands at the indices in S, one after the other
Pick(cands, S) ==
    LET RECURSIVE From(_)
        From(i) == IF i > Len(cands) THEN <<>>
                   ELSE (IF i \in S THEN cands[i] ELSE <<>>) \o From(i + 1)
    IN From(1)

Picks(cands) == {Pick(cands, S) : S \in SUBSET (1..Len(cands))}

\* the longest section list of a loaded document
MaxLen == 2
\* the entries that are added to the activity feed between two builds, at most
MaxWidgets == 56
\* the entries that the console stores at most
MaxLogs == 3

Lists(entries) == UNION {[1..n -> entries] : n \in 0..MaxLen}

n_a_aml == <<"a", ".", "a", "m", "l">>
n_A_aml == <<"A", ".", "a", "m", "l">>
n_B_bin == <<"B", ".", "b", "i", "n">>
n_old_aml == <<"o", "l", "d", ".", "a", "m", "l">>
n_x_efi == <<"x", ".", "e", "f", "i">>
n_X_efi == <<"X", ".", "e", "f", "i">>
n_Y_efi == <<"Y", ".", "e", "f", "i">>
n_old_efi == <<"o", "l", "d", ".", "e", "f", "i">>
n_T_efi == <<"T", ".", "e", "f", "i">>
n_s_efi == <<"s", ".", "e", "f", "i">>
n_A_kext == <<"A", ".", "k", "e", "x", "t">>
n_a_kext == <<"a", ".", "k", "e", "x", "t">>
n_B_kext == <<"B", ".", "k", "e", "x", "t">>
n_b_kext == <<"b", ".", "k", "e", "x", "t">>
n_X_kext == <<"X", ".", "k", "e", "x", "t">>
n_Bad_kext == <<"B", "a", "d", ".", "k", "e", "x", "t">>
n_N_kext == <<"N", ".", "k", "e", "x", "t">>
n_R_kext == <<"R", ".", "k", "e", "x", "t">>
n_Y_kext == <<"Y", ".", "k", "e", "x", "t">>
n_Gone_kext == <<"G", "o", "n", "e", ".", "k", "e", "x", "t">>
n_my == <<"m", "y">>

\* candidates of the ACPI folder, in enumeration order and in groups that are
\* there or not together: a sub-folder with an accepted, a hidden and a
\* foreign file beside B.bin, and two files that differ in case only (a
\* case-sensitive file system)
AcpiFiles ==
    <<<<Dir(<<"s">>, <<File(<<"c", ".", "a", "m", "l">>, 1), File(<<".", "h", ".", "a", "m", "l">>, 1), File(<<"n", ".", "t", "x", "t">>, 1)>>),
        File(n_B_bin, 1)>>,
      <<File(n_a_aml, 1)>>,
      <<File(n_A_aml, 1)>>>>

DriverFiles ==
    <<<<Dir(<<"d">>, <<File(<<"w", ".", "E", "F", "I">>, 1), File(<<".", "v", ".", "e", "f", "i">>, 1), File(<<"r", ".", "t", "x", "t">>, 1)>>),
        File(n_Y_efi, 1)>>,
      <<File(n_x_efi, 1)>>,
      <<File(n_X_efi, 1)>>>>

ToolFiles == <<<<File(n_T_efi, 1)>>, <<File(n_s_efi, 1), File(<<".", "u", ".", "e", "f", "i">>, 1)>>>>

\* X.kext: a plug-in, Info.plist without CFBundleExecutable
KextX ==
    Dir(n_X_kext, <<Dir(s_Contents,
        <<InfoPlist([parses |-> TRUE, id |-> TRUE, exe |-> <<>>])>>)>>)
\* A.kext: executable present, holds the plug-in X.kext
KextA ==
    Dir(n_A_kext, <<Dir(s_Contents,
        <<InfoPlist([parses |-> TRUE, id |-> TRUE, exe |-> <<<<"A">>>>]),
          Dir(s_MacOS, <<File(<<"A">>, 1)>>),
          Dir(<<"P", "l", "u", "g", "I", "n", "s">>, <<KextX>>)>>)>>)
\* a.kext: differs from A.kext in case only; no executable declared
KextLowerA ==
    Dir(n_a_kext, <<Dir(s_Contents,
        <<InfoPlist([parses |-> TRUE, id |-> TRUE, exe |-> <<>>])>>)>>)
\* B.kext: Info.plist at the top of the bundle, the executable is empty
KextB ==
    Dir(n_B_kext, <<InfoPlist([parses |-> TRUE, id |-> TRUE, exe |-> <<<<"B">>>>]),
                    Dir(s_Contents, <<Dir(s_MacOS, <<File(<<"B">>, 0)>>)>>)>>)
\* Bad.kext: no Info.plist
KextBad == Dir(n_Bad_kext, <<Dir(s_Contents, <<File(<<"x">>, 1)>>)>>)
\* N.kext: an Info.plist without CFBundleIdentifier
KextNoId ==
    Dir(n_N_kext, <<Dir(s_Contents,
        <<InfoPlist([parses |-> TRUE, id |-> FALSE, exe |-> <<<<"N">>>>]),
          Dir(s_MacOS, <<File(<<"N">>, 1)>>)>>)>>)
\* Y.kext: a plug-in that declares an executable it does not have
KextY ==
    Dir(n_Y_kext, <<Dir(s_Contents,
        <<InfoPlist([parses |-> TRUE, id |-> TRUE, exe |-> <<<<"Y">>>>]),
          Dir(s_MacOS, <<File(<<"Z">>, 1)>>)>>)>>)
\* R.kext: an Info.plist that does not parse, holds the plug-in Y.kext
KextBroken ==
    Dir(n_R_kext, <<Dir(s_Contents,
        <<InfoPlist([parses |-> FALSE, id |-> FALSE, exe |-> <<>>]),
          Dir(<<"P", "l", "u", "g", "I", "n", "s">>, <<KextY>>)>>)>>)

KextDirs == <<<<KextB, KextBad, KextNoId, KextBroken>>, <<KextA>>, <<KextLowerA>>>>

\* a folder with the three required sub-folders and, in tools, none or one
\* Tools folder
Folder(acpi, kexts, drivers, tools) ==
    Dir(s_OC, <<Dir(s_ACPI, acpi), Dir(s_Drivers, drivers), Dir(s_Kexts, kexts)>>
              \o tools)

BaseAcpi == <<File(n_a_aml, 1)>>
BaseKexts == <<KextA>>
BaseDrivers == <<File(n_x_efi, 1)>>
BaseTools == <<Dir(s_Tools, <<File(n_T_efi, 1)>>)>>

\* entries of ACPI.Add: edited by the user, in another case than the file;
\* as the snapshot writes it, of a file that is gone; a bare string; no Path
AcpiEntries ==
    {Dict(<<KV("Comment", Str(n_my)), KV("Enabled", Bool(FALSE)),
            KV("Path", Str(n_A_aml))>>),
     AcpiNewEntry(n_old_aml),
     Str(n_B_bin),
     Dict(<<KV("Comment", Str(n_my))>>)}

\* entries of Kernel.Add: with stale paths and a user's MinKernel; in another
\* case than the bundle and without path keys; of a bundle that is gone; a
\* bare string
KextEntries0 ==
    {Dict(<<KV("Arch", Str(s_Any)), KV("BundlePath", Str(n_A_kext)),
            KV("Comment", Str(n_my)), KV("Enabled", Bool(TRUE)),
            KV("ExecutablePath", Str(<<"C", "o", "n", "t", "e", "n", "t", "s", "/", "M", "a", "c", "O", "S", "/", "O", "l", "d">>)),
            KV("MaxKernel", Str(<<>>)), KV("MinKernel", Str(<<"1", "9", ".", "0", ".", "0">>)),
            KV("PlistPath", Str(<<"I", "n", "f", "o", ".", "p", "l", "i", "s", "t">>))>>),
     Dict(<<KV("BundlePath", Str(n_b_kext)), KV("Enabled", Bool(FALSE))>>),
     Dict(<<KV("Arch", Str(s_Any)), KV("BundlePath", Str(n_Gone_kext)),
            KV("Comment", Str(n_Gone_kext)), KV("Enabled", Bool(TRUE)),
            KV("ExecutablePath", Str(<<>>)),
            KV("MaxKernel", Str(<<>>)), KV("MinKernel", Str(<<>>)),
            KV("PlistPath", Str(<<"C", "o", "n", "t", "e", "n", "t", "s", "/", "I", "n", "f", "o", ".", "p", "l", "i", "s", "t">>))>>),
     Str(n_A_kext)}

\* entries of UEFI.Drivers: a bare string; a mapping edited by the user, in
\* another case than the file; a bare string and a mapping of files that
\* are gone
DriverEntries ==
    {Str(n_x_efi),
     Dict(<<KV("Arguments", Str(<<>>)), KV("Comment", Str(n_my)),
            KV("Enabled", Bool(FALSE)), KV("LoadEarly", Bool(FALSE)),
            KV("Path", Str(n_X_efi))>>),
     Str(n_old_efi),
     Dict(<<KV("Arguments", Str(<<>>)), KV("Comment", Str(n_old_efi)),
            KV("Enabled", Bool(TRUE)), KV("LoadEarly", Bool(FALSE)),
            KV("Path", Str(n_old_efi))>>)}

\* entries of Misc.Tools: edited by the user; of a file that is gone; a bare
\* string
ToolEntries ==
    {DictSet(ToolNewEntry(n_T_efi), "Comment", Str(n_my)),
     ToolNewEntry(n_old_efi),
     Str(n_s_efi)}

\* a document with the four section lists
Doc(acpi, kexts, drivers, tools) ==
    Dict(<<
        KV("ACPI", Dict(<<KV("Add", List(acpi)),
                          KV("Quirks", Dict(<<KV("ResetHwSig", Bool(FALSE))>>))>>)),
        KV("Kernel", Dict(<<KV("Add", List(kexts))>>)),
        KV("Misc", Dict(<<KV("Boot", Dict(<<KV("Timeout", Num(5))>>)),
                          KV("Tools", List(tools))>>)),
        KV("NVRAM", Dict(<<>>)),
        KV("UEFI", Dict(<<KV("ConnectDrivers", Bool(TRUE)),
                          KV("Drivers", List(drivers))>>))>>)

DocAcpi == <<AcpiNewEntry(n_a_aml)>>
DocKexts == <<Dict(<<KV("BundlePath", Str(n_A_kext)), KV("Enabled", Bool(TRUE))>>)>>
DocDrivers == <<Str(n_x_efi)>>
DocTools == <<ToolNewEntry(n_T_efi)>>

\* an EFI folder on disk and the document in its config.plist
Volume(folder, plist) ==
    [folder |-> folder, config |-> [parses |-> TRUE, plist |-> plist]]

\* a second set of section folders, with other files and without Tools
OtherSections ==
    <<Dir(s_ACPI, <<File(n_B_bin, 1)>>), Dir(s_Drivers, <<File(n_old_efi, 1)>>),
      Dir(s_Kexts, <<KextB>>)>>

\* selected folders with an OC child: both complete; the child incomplete;
\* the selected one incomplete but with Tools, the child complete without
\* Tools; both incomplete, each lacking another folder
NestedFolders ==
    {Dir(s_EFI, <<Dir(s_ACPI, BaseAcpi), Dir(s_Drivers, BaseDrivers),
                  Dir(s_Kexts, BaseKexts)>> \o BaseTools
                \o <<Dir(s_OC, OtherSections)>>),
     Dir(s_EFI, <<Dir(s_ACPI, BaseAcpi), Dir(s_Drivers, BaseDrivers),
                  Dir(s_Kexts, BaseKexts), Dir(s_OC, <<Dir(s_ACPI, <<>>)>>)>>),
     Dir(s_EFI, <<Dir(s_ACPI, BaseAcpi)>> \o BaseTools
                \o <<Dir(s_OC, OtherSections)>>),
     Dir(s_EFI, <<Dir(s_ACPI, BaseAcpi)>> \o BaseTools
                \o <<Dir(s_OC, <<Dir(s_ACPI, <<>>), Dir(s_Kexts, <<>>)>>)>>)}

\* the folders without a Tools directory: none, and a file of that name
NoTools == {<<>>, <<File(s_Tools, 1)>>}

\* what is on disk: one section varies, its folder over the subsets of its
\* candidates and its list over the lists of its entries, while the other
\* sections hold one file and one entry each; then the folders without Tools
\* (also with a document without Misc.Tools, and one whose Misc is no
\* mapping), the folders with an OC child, an EFI folder whose OC child is
\* the valid one, a folder without Kexts, a document without the four
\* sections, the empty document, a Drivers list that holds a number, and a
\* config.plist that does not parse
Volumes ==
    {Volume(Folder(files, BaseKexts, BaseDrivers, BaseTools),
            Doc(list, DocKexts, DocDrivers, DocTools)) :
        files \in Picks(AcpiFiles), list \in Lists(AcpiEntries)}
    \cup {Volume(Folder(BaseAcpi, dirs, BaseDrivers, BaseTools),
                 Doc(DocAcpi, list, DocDrivers, DocTools)) :
        dirs \in Picks(KextDirs), list \in Lists(KextEntries0)}
    \cup {Volume(Folder(BaseAcpi, BaseKexts, files, BaseTools),
                 Doc(DocAcpi, DocKexts, list, DocTools)) :
        files \in Picks(DriverFiles), list \in Lists(DriverEntries)}
    \cup {Volume(Folder(BaseAcpi, BaseKexts, BaseDrivers, <<Dir(s_Tools, files)>>),
                 Doc(DocAcpi, DocKexts, DocDrivers, list)) :
        files \in Picks(ToolFiles), list \in Lists(ToolEntries)}
    \cup {Volume(Folder(BaseAcpi, BaseKexts, BaseDrivers, tools),
                 Doc(DocAcpi, DocKexts, DocDrivers, list)) :
        tools \in NoTools, list \in Lists(ToolEntries)}
    \cup {Volume(Folder(BaseAcpi, BaseKexts, BaseDrivers, tools),
                 Dict(<<KV("Misc", Dict(<<KV("Boot", Dict(<<>>))>>)),
                        KV("UEFI", Dict(<<KV("Drivers", List(<<>>))>>))>>)) :
        tools \in NoTools \cup {BaseTools}}
    \cup {Volume(Folder(BaseAcpi, BaseKexts, BaseDrivers, tools),
                 Dict(<<KV("NVRAM", Dict(<<>>))>>)) :
        tools \in NoTools \cup {BaseTools}}
    \cup {Volume(Folder(BaseAcpi, BaseKexts, BaseDrivers, tools),
                 Dict(<<KV("Misc", Str(n_my)),
                        KV("UEFI", Dict(<<KV("Drivers", List(<<>>))>>))>>)) :
        tools \in NoTools \cup {BaseTools}}
    \cup {Volume(folder, Doc(<<>>, <<>>, <<>>, DocTools)) : folder \in NestedFolders}
    \cup {Volume(Dir(s_EFI, <<Dir(<<"B", "O", "O", "T">>, <<>>),
                              Folder(BaseAcpi, BaseKexts, BaseDrivers, BaseTools)>>),
                 Doc(<<>>, <<>>, <<>>, <<>>)),
          Volume(Dir(s_OC, <<Dir(s_ACPI, BaseAcpi), Dir(s_Drivers, BaseDrivers)>>),
                 Doc(DocAcpi, DocKexts, DocDrivers, DocTools)),
          Volume(Folder(BaseAcpi, BaseKexts, BaseDrivers, BaseTools), Dict(<<>>)),
          Volume(Folder(BaseAcpi, BaseKexts, BaseDrivers, BaseTools),
                 Doc(DocAcpi, DocKexts, <<Num(1)>>, DocTools)),
          [folder |-> Folder(BaseAcpi, BaseKexts, BaseDrivers, BaseTools),
           config |-> [parses |-> FALSE, plist |-> None]]}

\* the values a document of the round trip is made of: the four kinds of
\* leaf, the empty mapping and sequence, and nested ones
DocValues ==
    {Bool(TRUE), Num(0), Str(n_my), Data(<<222, 173>>), Dict(<<>>), List(<<>>),
     Dict(<<KV("Add", List(<<Bool(FALSE), Dict(<<>>)>>))>>),
     List(<<Dict(<<KV("Path", Str(<<>>)), KV("Enabled", Num(1))>>), List(<<>>)>>)}

\* the documents a property list can hold: a mapping or a sequence of the
\* values, or one string
Documents ==
    {Dict([i \in 1..Len(values) |-> KV("Key " \o ToString(i), values[i])]) :
        values \in Lists(DocValues)}
    \cup {List(values) : values \in Lists(DocValues)}
    \cup {Str(n_my)}

\* what the file dialog can return: nothing, or the config.plist
LoadChoices ==
    {<<>>,
     <<[path |-> "config.plist", parses |-> config_plist.parses,
        plist |-> config_plist.plist]>>}

\* save_config with current_file set, as it is once a file is loaded and
\* the Save button is enabled: the tree's data are written to the file.
\* open() may fail and leave the file as it is; plistlib.dump may fail
\* after open() has truncated the file
SaveOutcomes == {"done", "open_failed", "dump_failed"}

\* a file that is not there, or holds no plist
NoFile == [parses |-> FALSE, plist |-> None]

\* what the file at path holds after save_config has run with current_file
\* = target: the file named is written, any other file stays as it is
Written(path, file, target, outcome, data) ==
    IF path # target THEN file
    ELSE CASE outcome = "done" -> [parses |-> TRUE, plist |-> data]
           [] outcome = "open_failed" -> file
           [] outcome = "dump_failed" -> NoFile

SaveConfigWith(outcome) ==
    \E data \in {GetTreeData(tree)} :
        /\ config_plist' = Written("config.plist", config_plist, current_file,
                                   outcome, data)
        /\ copy_plist' = Written("copy.plist", copy_plist, current_file,
                                 outcome, data)
        /\ message' = [title |-> IF outcome = "done" THEN "Saved"
                                 ELSE "Error Saving File",
                       detail |-> <<>>]
        /\ last' = [op |-> "save", clean |-> FALSE,
                    outcome |-> IF outcome = "done" THEN "done" ELSE "error",
                    before |-> None, again |-> FALSE]
        /\ UNCHANGED <<disk, tree, plist_data, current_file, buttons>>

\* save_config_as; file_path is what the save dialog returns: nothing (<<>>,
\* cancelled) or a path.  current_file is set first, then save_config runs
SaveConfigAsWith(file_path, outcome) ==
    IF file_path = <<>>
    THEN UNCHANGED vars
    ELSE \E data \in {GetTreeData(tree)} :
        /\ current_file' = file_path[1]
        /\ config_plist' = Written("config.plist", config_plist, file_path[1],
                                   outcome, data)
        /\ copy_plist' = Written("copy.plist", copy_plist, file_path[1],
                                 outcome, data)
        /\ message' = [title |-> IF outcome = "done" THEN "Saved"
                                 ELSE "Error Saving File",
                       detail |-> <<>>]
        /\ last' = [op |-> "save_as", clean |-> FALSE,
                    outcome |-> IF outcome = "done" THEN "done" ELSE "error",
                    before |-> None, again |-> FALSE]
        /\ UNCHANGED <<disk, tree, plist_data, buttons>>

\* what the save dialog can return
SaveChoices == {<<>>, <<"config.plist">>, <<"copy.plist">>}

(***************************************************************************)
(* The build page (Scripts/gui/pages/build_page.py).  An entry of the      *)
(* activity feed is a widget of its own: id tells the widgets apart, it is *)
(* the entry's rank among those added since the feed was last cleared, and *)
(* widgets counts these.  The build log is the sequence of its             *)
(* lines.  The controller is not part of these sources: hardware_report    *)
(* and needs_oclp are what the page reads of it, builds counts the calls   *)
(* of build_efi() that have not reported back, and log_message appends a   *)
(* line to the build log the page handed to it (343).                      *)
(***************************************************************************)
MAX_ACTIVITY_LOG_ENTRIES == 50
DEFAULT_LOG_TEXT == "Build log will appear here..."
LOG_SEPARATOR == "======"

BuildPageInit ==
    [build_in_progress |-> FALSE,
     build_successful |-> FALSE,
     build_btn |-> [enabled |-> TRUE, text |-> "Build OpenCore EFI"],
     progress_container |-> FALSE,
     activity_card |-> FALSE,
     success_card |-> FALSE,
     instructions_after_build_card |-> FALSE,
     log_entries |-> <<>>,
     build_log |-> <<DEFAULT_LOG_TEXT>>,
     info_bar |-> "",
     widgets |-> 0,
     called |-> "__init__"]

ControllerInit ==
    [hardware_report |-> FALSE, needs_oclp |-> FALSE, builds |-> 0]

\* the feed keeps the newest entries
LimitNewestOut(entries) ==
    IF Len(entries) > MAX_ACTIVITY_LOG_ENTRIES
    THEN SubSeq(entries, 1, Len(entries) - 1)
    ELSE entries

Limit(entries) ==
    IF Len(entries) > MAX_ACTIVITY_LOG_ENTRIES
    THEN Tail(entries)
    ELSE entries

add_log_entry(bp, text, entry_type) ==
    [bp EXCEPT !.log_entries =
                   Limit(Append(@, [message |-> text, entry_type |-> entry_type,
                                    id |-> bp.widgets + 1])),
               !.widgets = @ + 1]

log_message(bp, line) ==
    [bp EXCEPT !.build_log = Append(@, line)]

RECURSIVE LogAll(_, _)
LogAll(bp, lines) ==
    IF lines = <<>> THEN bp ELSE LogAll(log_message(bp, Head(lines)), Tail(lines))

RECURSIVE AddAll(_, _)
AddAll(bp, entries) ==
    IF entries = <<>>
    THEN bp
    ELSE AddAll(add_log_entry(bp, Head(entries)[1], Head(entries)[2]), Tail(entries))

ReportNeverMissing == FALSE

ReportMissing == ~controller.hardware_report

StartedKeepingResult(bp) ==
    [bp EXCEPT !.build_in_progress = TRUE]

Started(bp) ==
    [bp EXCEPT !.build_in_progress = TRUE, !.build_successful = FALSE]

BuildingEnabled(btn) ==
    [btn EXCEPT !.text = "Building..."]

Building(btn) ==
    [enabled |-> FALSE, text |-> "Building..."]

\* start_build past its check of the hardware report, up to the call of
\* build_efi()
Begun(bp, oclp) ==
    LET shown == [Started(bp) EXCEPT !.build_btn = Building(@),
                                     !.progress_container = TRUE,
                                     !.activity_card = TRUE,
                                     !.log_entries = <<>>,
                                     !.widgets = 0,
                                     !.success_card = FALSE,
                                     !.instructions_after_build_card = FALSE,
                                     !.build_log = <<>>]
        fed == AddAll(shown,
                      <<<<"Build process initiated", "step">>,
                        <<"Target macOS", "info">>,
                        <<"SMBIOS Model", "info">>>>
                      \o (IF oclp
                          THEN <<<<"OpenCore Legacy Patcher support enabled",
                                   "warning">>>>
                          ELSE <<>>))
    IN LogAll(fed,
              <<LOG_SEPARATOR, "OpenCore EFI Build Started", LOG_SEPARATOR, "",
                "Build Configuration:", "macOS Version", "SMBIOS Model">>
              \o (IF oclp THEN <<"OpenCore Legacy Patcher: Required">> ELSE <<>>)
              \o <<"">>)

\* a click on the build button, which a disabled button does not deliver
StartBuild ==
    /\ build_page.build_btn.enabled
    /\ IF ReportMissing
       THEN /\ build_page' = [build_page EXCEPT
                                 !.info_bar = "Hardware Report Required",
                                 !.called = "start_build"]
            /\ UNCHANGED controller
       ELSE /\ build_page' = [Begun(build_page, controller.needs_oclp) EXCEPT
                                 !.called = "start_build"]
            /\ controller' = [controller EXCEPT !.builds = @ + 1]
    /\ UNCHANGED <<editor, console_page>>

Completed(bp, success, bios_requirements) ==
    LET done == [bp EXCEPT !.build_in_progress = FALSE,
                           !.build_successful = success]
    IN IF success
       THEN LET fed == AddAll(done,
                              <<<<"Build completed successfully!", "success">>,
                                <<"EFI folder is ready for installation",
                                  "success">>>>)
                told == IF bios_requirements # <<>>
                        THEN add_log_entry(
                                 [fed EXCEPT !.success_card = TRUE,
                                             !.instructions_after_build_card = TRUE],
                                 "Please review post-build instructions", "warning")
                        ELSE [fed EXCEPT !.success_card = TRUE]
            IN [LogAll(told, <<"", LOG_SEPARATOR, "Build Completed Successfully!",
                               LOG_SEPARATOR>>)
                  EXCEPT !.build_btn = [enabled |-> TRUE,
                                        text |-> "Build OpenCore EFI"],
                         !.info_bar = "Build Complete"]
       ELSE [LogAll(add_log_entry(done, "Build failed - check details in log",
                                  "error"),
                    <<"", LOG_SEPARATOR, "Build Failed", LOG_SEPARATOR>>)
               EXCEPT !.build_btn = [enabled |-> TRUE, text |-> "Retry Build"],
                      !.success_card = FALSE,
                      !.info_bar = "Build Failed"]

\* the build pipeline reports back, once for each build_efi(); the option
\* bios_requirements is <<>> for None and <<list>> for a list
OnBuildComplete ==
    /\ controller.builds > 0
    /\ build_page.widgets + 3 <= MaxWidgets
    /\ \E success \in BOOLEAN, bios_requirements \in {<<>>, <<"requirements">>} :
          build_page' = [Completed(build_page, success, bios_requirements) EXCEPT
                            !.called = "on_build_complete"]
    /\ controller' = [controller EXCEPT !.builds = @ - 1]
    /\ UNCHANGED <<editor, console_page>>

Refreshed(bp) ==
    IF bp.build_in_progress
    THEN bp
    ELSE IF bp.build_successful
         THEN [bp EXCEPT !.success_card = TRUE, !.progress_container = TRUE]
         ELSE [bp EXCEPT !.success_card = FALSE,
                         !.progress_container =
                             IF bp.build_log \in {<<>>, <<"">>, <<DEFAULT_LOG_TEXT>>}
                             THEN FALSE
                             ELSE @]

Refresh ==
    /\ build_page' = [Refreshed(build_page) EXCEPT !.called = "refresh"]
    /\ UNCHANGED <<editor, controller, console_page>>

\* the controller adds an entry to the activity feed
AddLogEntry ==
    /\ build_page.widgets < MaxWidgets
    /\ build_page' = [add_log_entry(build_page, "Progress", "info") EXCEPT
                         !.called = "add_log_entry"]
    /\ UNCHANGED <<editor, controller, console_page>>

\* the controller loads a hardware report, or drops it
SetHardwareReport ==
    /\ \E loaded \in BOOLEAN, oclp \in BOOLEAN :
          controller' = [controller EXCEPT !.hardware_report = loaded,
                                           !.needs_oclp = oclp]
    /\ UNCHANGED <<editor, build_page, console_page>>

(***************************************************************************)
(* The console page (Scripts/gui/pages/console_page.py): the stored        *)
(* entries, the two filters and the text of the console, each text a       *)
(* Python str.                                                             *)
(***************************************************************************)
\* str.upper() on one character, and str.upper()
UpperChar(c) == IF Ord(c) \in 97..122 THEN UpperCase[Ord(c) - 96] ELSE c

RECURSIVE StrUpper(_)
StrUpper(s) == IF s = <<>> THEN <<>>
               ELSE <<UpperChar(Head(s))>> \o StrUpper(Tail(s))

\* str.capitalize()
Capitalize(s) ==
    IF s = <<>> THEN <<>> ELSE <<UpperChar(Head(s))>> \o StrLower(Tail(s))

\* str.strip()
Whitespace == {" ", "\n"}

RECURSIVE LStrip(_)
LStrip(s) == IF s # <<>> /\ Head(s) \in Whitespace THEN LStrip(Tail(s)) ELSE s

RECURSIVE RStrip(_)
RStrip(s) ==
    IF s # <<>> /\ s[Len(s)] \in Whitespace
    THEN RStrip(SubSeq(s, 1, Len(s) - 1))
    ELSE s

Strip(s) == RStrip(LStrip(s))

\* sub in s
Contains(sub, s) ==
    \E i \in 1..(Len(s) - Len(sub) + 1) : SubSeq(s, i, i + Len(sub) - 1) = sub

\* "\n".join(texts)
RECURSIVE JoinLines(_)
JoinLines(texts) ==
    IF texts = <<>> THEN <<>>
    ELSE IF Len(texts) = 1 THEN texts[1]
    ELSE texts[1] \o <<"\n">> \o JoinLines(Tail(texts))

s_All == <<"A", "l", "l">>
s_Info == <<"I", "n", "f", "o">>
s_Warning == <<"W", "a", "r", "n", "i", "n", "g">>
s_Error == <<"E", "r", "r", "o", "r">>
s_Debug == <<"D", "e", "b", "u", "g">>
LEVELS == <<s_All, s_Info, s_Warning, s_Error, s_Debug>>

NoMatchText ==
    <<"N", "o", " ", "l", "o", "g", "s", " ", "m", "a", "t", "c", "h", " ",
      "t", "h", "e", " ", "c", "u", "r", "r", "e", "n", "t", " ", "f", "i",
      "l", "t", "e", "r", "s", ".">>

WaitingText ==
    <<"C", "o", "n", "s", "o", "l", "e", " ", "l", "o", "g", "s", " ", "w",
      "i", "l", "l", " ", "a", "p", "p", "e", "a", "r", " ", "h", "e", "r",
      "e", ".", ".", ".", "\n", "\n", "W", "a", "i", "t", "i", "n", "g",
      " ", "f", "o", "r", " ", "a", "p", "p", "l", "i", "c", "a", "t", "i",
      "o", "n", " ", "e", "v", "e", "n", "t", "s", ".", ".", ".">>

\* does an entry pass the filters, its text compared as it is stored
PassesCaseSensitive(entry, level, query) ==
    /\ level = s_All \/ StrLower(entry.level) = StrLower(level)
    /\ query = <<>> \/ Contains(query, entry.text)

\* does an entry pass the filters (271-274)
Passes(entry, level, query) ==
    /\ level = s_All \/ StrLower(entry.level) = StrLower(level)
    /\ query = <<>> \/ Contains(query, StrLower(entry.text))

RECURSIVE FilterEntries(_, _, _)
FilterEntries(entries, level, query) ==
    IF entries = <<>> THEN <<>>
    ELSE (IF Passes(Head(entries), level, query)
          THEN <<Head(entries).text>>
          ELSE <<>>)
         \o FilterEntries(Tail(entries), level, query)

apply_filters(cp) ==
    LET level == cp.level_filter
        query == StrLower(Strip(cp.search_input))
        filtered == FilterEntries(cp.log_entries, level, query)
    IN [cp EXCEPT !.console_text =
                      IF filtered # <<>>
                      THEN JoinLines(filtered)
                      ELSE IF cp.log_entries # <<>> THEN NoMatchText
                      ELSE WaitingText,
                  !.visible_count = Len(filtered)]

\* ComboBox.setCurrentText: a text that is no item is not taken, and
\* currentTextChanged calls _apply_filters when the text changes
SetCurrentText(cp, text) ==
    IF InList(text, LEVELS) /\ text # cp.level_filter
    THEN apply_filters([cp EXCEPT !.level_filter = text])
    ELSE cp

\* LineEdit.setText: textChanged calls _apply_filters when the text changes
SetText(cp, text) ==
    IF text # cp.search_input
    THEN apply_filters([cp EXCEPT !.search_input = text])
    ELSE cp

ConsolePageInit ==
    apply_filters([log_entries |-> <<>>,
                   level_filter |-> LEVELS[1],
                   search_input |-> <<>>,
                   console_text |-> <<>>,
                   visible_count |-> 0,
                   last_update_text |-> <<"-", "-">>])

Formatted(timestamp, normalized_level, text) ==
    <<"[">> \o timestamp \o <<"]", " ", "[">> \o StrUpper(normalized_level)
    \o <<"]", " ">> \o text

append_log(cp, text, level, timestamp) ==
    LET normalized_level == IF level # <<>> THEN Capitalize(level) ELSE s_Info
    IN apply_filters(
           [cp EXCEPT !.log_entries =
                          Append(@, [level |-> normalized_level,
                                     text |-> Formatted(timestamp,
                                                        normalized_level, text)]),
                      !.last_update_text = timestamp])

\* what the application logs, at which levels and when
Messages == {<<"o", "k">>, <<"E", "r", "r">>}
Levels == {<<>>, <<"E", "R", "R", "O", "R">>, <<"d", "e", "b", "u", "g">>}
Timestamps == {<<"0", "9", ":", "0", "0", ":", "0", "0">>}
\* what the user types into the search field
Searches == {<<>>, <<" ", "E", "R", "R", " ">>, <<"o", "k">>, <<"[", "e">>}

AppendLog ==
    /\ Len(console_page.log_entries) < MaxLogs
    /\ \E text \in Messages, level \in Levels, timestamp \in Timestamps :
          console_page' = append_log(console_page, text, level, timestamp)
    /\ UNCHANGED <<editor, build_page, controller>>

ClearConsole ==
    /\ console_page' = apply_filters([console_page EXCEPT
                                         !.log_entries = <<>>,
                                         !.last_update_text = <<"-", "-">>])
    /\ UNCHANGED <<editor, build_page, controller>>

\* the user picks a level in the combo box
LevelFilterChanged ==
    /\ \E i \in 1..Len(LEVELS) :
          console_page' = SetCurrentText(console_page, LEVELS[i])
    /\ UNCHANGED <<editor, build_page, controller>>

\* the user edits the search field
SearchInputChanged ==
    /\ \E text \in Searches :
          console_page' = SetText(console_page, text)
    /\ UNCHANGED <<editor, build_page, controller>>

ClearAllFilters ==
    /\ console_page' = SetText(SetCurrentText(console_page, s_All), <<>>)
    /\ UNCHANGED <<editor, build_page, controller>>

\* the quick filters of the menu: one level, or "Error,Warning"
QuickFilter ==
    /\ \E level \in {s_Error, s_Warning, s_Error \o <<",">> \o s_Warning} :
          console_page' =
              SetCurrentText(console_page,
                             IF InList(",", level) THEN s_All ELSE level)
    /\ UNCHANGED <<editor, build_page, controller>>

ConsoleRefresh ==
    /\ console_page' = apply_filters(console_page)
    /\ UNCHANGED <<editor, build_page, controller>>

(***************************************************************************)
(* The page after construction, and its handlers                           *)
(***************************************************************************)
\* the Save button
SaveConfig ==
    /\ buttons.save
    /\ \E outcome \in SaveOutcomes : SaveConfigWith(outcome)
    /\ UNCHANGED <<handler_data, locals, others>>

\* the Save As button
SaveConfigAs ==
    /\ buttons.save_as
    /\ \E file_path \in SaveChoices, outcome \in SaveOutcomes :
          SaveConfigAsWith(file_path, outcome)
    /\ UNCHANGED <<handler_data, locals, others>>

\* the Load config.plist button
LoadConfig ==
    /\ \E file \in LoadChoices : LoadConfigWith(file)
    /\ UNCHANGED <<handler_data, locals, others, copy_plist>>

\* no section handler is being followed
Idle ==
    [pc |-> "idle", sec |-> "none", clean |-> FALSE, start |-> None,
     prior |-> <<>>, add |-> <<>>, todo |-> <<>>, existing |-> <<>>,
     keep |-> <<>>, i |-> 0, new_add |-> <<>>]

Init ==
    /\ \E volume \in Volumes : disk = volume.folder /\ config_plist = volume.config
    /\ tree = <<>>
    /\ plist_data = None
    /\ current_file = <<>>
    /\ buttons = [save |-> FALSE, save_as |-> FALSE,
                  snapshot |-> FALSE, clean_snapshot |-> FALSE]
    /\ message = NoMessage
    /\ last = [op |-> "init", clean |-> FALSE, outcome |-> "done",
                before |-> None, again |-> FALSE]
    /\ handler_data = None
    /\ locals = Idle
    /\ build_page = BuildPageInit
    /\ controller = ControllerInit
    /\ console_page = ConsolePageInit
    /\ copy_plist = NoFile

Next ==
    \/ LoadConfig
    \/ OcSnapshot
    \/ OcCleanSnapshot

Spec == Init /\ [][Next]_vars

\* the page on a folder whose config.plist is any of the documents, loaded
\* and saved
InitDocument ==
    /\ disk = Folder(BaseAcpi, BaseKexts, BaseDrivers, BaseTools)
    /\ \E d \in Documents : config_plist = [parses |-> TRUE, plist |-> d]
    /\ tree = <<>>
    /\ plist_data = None
    /\ current_file = <<>>
    /\ buttons = [save |-> FALSE, save_as |-> FALSE,
                  snapshot |-> FALSE, clean_snapshot |-> FALSE]
    /\ message = NoMessage
    /\ last = [op |-> "init", clean |-> FALSE, outcome |-> "done",
                before |-> None, again |-> FALSE]
    /\ handler_data = None
    /\ locals = Idle
    /\ build_page = BuildPageInit
    /\ controller = ControllerInit
    /\ console_page = ConsolePageInit
    /\ copy_plist = NoFile

NextDocument ==
    \/ LoadConfig
    \/ SaveConfig

SpecDocument == InitDocument /\ [][NextDocument]_vars

\* the same page with Save As: the document is written to the file it was
\* loaded from or to a second one
NextSave ==
    \/ LoadConfig
    \/ SaveConfig
    \/ SaveConfigAs

SpecSave == InitDocument /\ [][NextSave]_vars

(***************************************************************************)
(* _snapshot_acpi and _snapshot_kexts statement by statement, as called    *)
(* one after the other by _perform_snapshot on its tree_data.  In MERGE    *)
(* mode `add` is the very list of the document, and its entries are the    *)
(* document's entries: what is done to them is done to the document.       *)
(***************************************************************************)
page == <<disk, config_plist, tree, plist_data, current_file, buttons, message, last,
         others, copy_plist>>

\* tree_data[outer]["Add"] of the handler that runs
Outer(sec) == IF sec = "ACPI" THEN "ACPI" ELSE "Kernel"

\* add is the document's list unless clean
Aliased(data, sec, clean, add) ==
    IF clean THEN data ELSE SetSectionList(data, Outer(sec), "Add", add)

\* the handler up to its first loop: the containers, the scan, add and the
\* existing paths (544-559, 584-644)
BeginHandler(sec, clean) ==
    IF EnsureRaises(handler_data, Outer(sec))
    THEN /\ locals' = [Idle EXCEPT !.pc = "raised", !.sec = sec]
         /\ UNCHANGED handler_data
    ELSE \E d \in {EnsureList(handler_data, Outer(sec), "Add")} :
         \E found \in {IF sec = "ACPI"
                        THEN ScanAcpi(SubDir(BaseFolder(disk), s_ACPI))
                        ELSE ScanKexts(SubDir(BaseFolder(disk), s_Kexts))} :
         \E add \in {IF clean THEN <<>> ELSE SectionList(d, Outer(sec), "Add")} :
            /\ handler_data' = d
            /\ locals' =
                  IF ExistingPathsRaise(add, IF sec = "ACPI" THEN "Path" ELSE "BundlePath")
                  THEN [Idle EXCEPT !.pc = "raised", !.sec = sec]
                  ELSE [pc |-> "append", sec |-> sec, clean |-> clean,
                        start |-> handler_data,
                        prior |-> SectionList(d, Outer(sec), "Add"),
                        add |-> add,
                        todo |-> IF sec = "ACPI" THEN AcpiOrder(found) ELSE found,
                        existing |-> ExistingPaths(add, IF sec = "ACPI" THEN "Path"
                                                        ELSE "BundlePath"),
                        keep |-> IF sec = "ACPI" THEN LoweredPaths(found)
                                 ELSE KextBundles(found),
                        i |-> 1, new_add |-> <<>>]

\* _snapshot_acpi is called, in either mode
BeginAcpi ==
    /\ locals.pc = "idle"
    /\ \E clean \in BOOLEAN : BeginHandler("ACPI", clean)
    /\ UNCHANGED page

\* _snapshot_kexts is called when _snapshot_acpi has returned
BeginKexts ==
    /\ locals.pc = "done"
    /\ locals.sec = "ACPI"
    /\ BeginHandler("Kexts", locals.clean)
    /\ UNCHANGED page

\* one turn of the loop that appends the new entries (561-569, 646-649)
AppendStep ==
    /\ locals.pc = "append"
    /\ IF locals.i > Len(locals.todo)
       THEN /\ locals' = [locals EXCEPT !.pc = "prune", !.i = 1]
            /\ UNCHANGED handler_data
       ELSE LET item == locals.todo[locals.i]
                is_new == IF locals.sec = "ACPI"
                          THEN AcpiIsNew(item, locals.existing)
                          ELSE KextIsNew(item, locals.existing)
                entry == IF locals.sec = "ACPI" THEN AcpiNewEntry(item) ELSE item
                add == IF is_new THEN Append(locals.add, entry) ELSE locals.add
            IN /\ locals' = [locals EXCEPT !.add = add, !.i = @ + 1]
               /\ handler_data' = Aliased(handler_data, locals.sec, locals.clean, add)
    /\ UNCHANGED page

\* one turn of the loop that keeps the entries found on disk, and sets the
\* paths of a kept kext entry (571-577, 651-663)
PruneStep ==
    /\ locals.pc = "prune"
    /\ IF locals.i > Len(locals.add)
       THEN /\ locals' = [locals EXCEPT !.pc = "assign"]
            /\ UNCHANGED handler_data
       ELSE LET entry == locals.add[locals.i]
                keeps == IF locals.sec = "ACPI"
                         THEN AcpiKeeps(entry, locals.keep)
                         ELSE KextKeeps(entry, locals.keep)
                now == IF keeps /\ locals.sec = "Kexts"
                       THEN KextRefresh(entry, locals.todo)
                       ELSE entry
                add == [locals.add EXCEPT ![locals.i] = now]
            IN /\ locals' = [locals EXCEPT
                                !.add = add,
                                !.new_add = IF keeps THEN Append(@, now) ELSE @,
                                !.i = @ + 1]
               /\ handler_data' = Aliased(handler_data, locals.sec, locals.clean, add)
    /\ UNCHANGED page

\* tree_data[outer]["Add"] = new_add (579, 665)
AssignStep ==
    /\ locals.pc = "assign"
    /\ handler_data' = SetSectionList(handler_data, Outer(locals.sec), "Add",
                                      locals.new_add)
    /\ locals' = [locals EXCEPT !.pc = "done"]
    /\ UNCHANGED page

\* the folders with all the candidates of ACPI and of Kexts
FullAcpi == Pick(AcpiFiles, 1..Len(AcpiFiles))
FullKexts == Pick(KextDirs, 1..Len(KextDirs))

\* the documents whose ACPI.Add or Kernel.Add varies, on the full folder
StepVolumes ==
    {Volume(Folder(FullAcpi, FullKexts, BaseDrivers, BaseTools),
            Doc(list, DocKexts, DocDrivers, DocTools)) : list \in Lists(AcpiEntries)}
    \cup {Volume(Folder(FullAcpi, FullKexts, BaseDrivers, BaseTools),
                 Doc(DocAcpi, list, DocDrivers, DocTools)) : list \in Lists(KextEntries0)}
    \cup {Volume(Folder(FullAcpi, FullKexts, BaseDrivers, BaseTools),
                 Dict(<<KV("Kernel", Str(n_my))>>))}

\* the page with a document loaded, at the point where _perform_snapshot
\* has taken tree_data from the tree (510)
InitSteps ==
    /\ \E volume \in StepVolumes :
          /\ disk = volume.folder
          /\ config_plist = volume.config
          /\ plist_data = volume.config.plist
          /\ tree = PopulateTree(volume.config.plist)
          /\ handler_data = GetTreeData(PopulateTree(volume.config.plist))
    /\ current_file = "config.plist"
    /\ buttons = [save |-> TRUE, save_as |-> TRUE,
                  snapshot |-> TRUE, clean_snapshot |-> TRUE]
    /\ message = [title |-> "Success", detail |-> <<>>]
    /\ last = [op |-> "load", clean |-> FALSE, outcome |-> "done",
                before |-> None, again |-> FALSE]
    /\ locals = Idle
    /\ build_page = BuildPageInit
    /\ controller = ControllerInit
    /\ console_page = ConsolePageInit
    /\ copy_plist = NoFile

NextSteps ==
    \/ BeginAcpi
    \/ BeginKexts
    \/ AppendStep
    \/ PruneStep
    \/ AssignStep

SpecSteps == InitSteps /\ [][NextSteps]_vars

(***************************************************************************)
(* The build page alone: the controller loads or drops the hardware        *)
(* report, the build button is clicked, the pipeline reports back, and the *)
(* page is refreshed.                                                      *)
(***************************************************************************)
InitBuild ==
    /\ disk = Folder(BaseAcpi, BaseKexts, BaseDrivers, BaseTools)
    /\ config_plist = [parses |-> TRUE, plist |-> Doc(<<>>, <<>>, <<>>, DocTools)]
    /\ tree = <<>>
    /\ plist_data = None
    /\ current_file = <<>>
    /\ buttons = [save |-> FALSE, save_as |-> FALSE,
                  snapshot |-> FALSE, clean_snapshot |-> FALSE]
    /\ message = NoMessage
    /\ last = [op |-> "init", clean |-> FALSE, outcome |-> "done",
                before |-> None, again |-> FALSE]
    /\ handler_data = None
    /\ locals = Idle
    /\ build_page = BuildPageInit
    /\ controller = ControllerInit
    /\ console_page = ConsolePageInit
    /\ copy_plist = NoFile

NextBuild ==
    \/ SetHardwareReport
    \/ StartBuild
    \/ OnBuildComplete
    \/ Refresh

SpecBuild == InitBuild /\ [][NextBuild]_vars

\* the activity feed of the build page, with a hardware report loaded: builds
\* start and end, and the pipeline adds entries to the feed
InitFeed ==
    /\ disk = Folder(BaseAcpi, BaseKexts, BaseDrivers, BaseTools)
    /\ config_plist = [parses |-> TRUE, plist |-> Doc(<<>>, <<>>, <<>>, DocTools)]
    /\ tree = <<>>
    /\ plist_data = None
    /\ current_file = <<>>
    /\ buttons = [save |-> FALSE, save_as |-> FALSE,
                  snapshot |-> FALSE, clean_snapshot |-> FALSE]
    /\ message = NoMessage
    /\ last = [op |-> "init", clean |-> FALSE, outcome |-> "done",
                before |-> None, again |-> FALSE]
    /\ handler_data = None
    /\ locals = Idle
    /\ build_page = BuildPageInit
    /\ \E oclp \in BOOLEAN :
          controller = [hardware_report |-> TRUE, needs_oclp |-> oclp, builds |-> 0]
    /\ console_page = ConsolePageInit
    /\ copy_plist = NoFile

NextFeed ==
    \/ StartBuild
    \/ OnBuildComplete
    \/ AddLogEntry

SpecFeed == InitFeed /\ [][NextFeed]_vars

\* the console page alone: the application logs, and the user filters
InitConsole ==
    /\ disk = Folder(BaseAcpi, BaseKexts, BaseDrivers, BaseTools)
    /\ config_plist = [parses |-> TRUE, plist |-> Doc(<<>>, <<>>, <<>>, DocTools)]
    /\ tree = <<>>
    /\ plist_data = None
    /\ current_file = <<>>
    /\ buttons = [save |-> FALSE, save_as |-> FALSE,
                  snapshot |-> FALSE, clean_snapshot |-> FALSE]
    /\ message = NoMessage
    /\ last = [op |-> "init", clean |-> FALSE, outcome |-> "done",
                before |-> None, again |-> FALSE]
    /\ handler_data = None
    /\ locals = Idle
    /\ build_page = BuildPageInit
    /\ controller = ControllerInit
    /\ console_page = ConsolePageInit
    /\ copy_plist = NoFile

NextConsole ==
    \/ AppendLog
    \/ ClearConsole
    \/ LevelFilterChanged
    \/ SearchInputChanged
    \/ ClearAllFilters
    \/ QuickFilter
    \/ ConsoleRefresh

SpecConsole == InitConsole /\ [][NextConsole]_vars

(***************************************************************************)
(* What a completed snapshot did, read from the page and its history       *)
(***************************************************************************)
\* the snapshot that ran last completed
SnapshotDone == last.op = "snapshot" /\ last.outcome = "done"
MergeDone == SnapshotDone /\ ~last.clean
CleanDone == SnapshotDone /\ last.clean

SectionNames == {"ACPI", "Kexts", "Drivers", "Tools"}

OuterKey(sec) ==
    CASE sec = "ACPI" -> "ACPI"
      [] sec = "Kexts" -> "Kernel"
      [] sec = "Drivers" -> "UEFI"
      [] sec = "Tools" -> "Misc"

InnerKey(sec) == IF sec \in {"ACPI", "Kexts"} THEN "Add" ELSE sec

PathKey(sec) == IF sec = "Kexts" THEN "BundlePath" ELSE "Path"

\* the section list of a document: none (<<>>) or one list (<<entries>>)
SectionOf(doc, sec) ==
    IF /\ IsDict(doc)
       /\ DictHas(doc, OuterKey(sec))
       /\ IsDict(DictGet(doc, OuterKey(sec)))
       /\ DictHas(DictGet(doc, OuterKey(sec)), InnerKey(sec))
       /\ DictGet(DictGet(doc, OuterKey(sec)), InnerKey(sec)).t = "list"
    THEN <<DictGet(DictGet(doc, OuterKey(sec)), InnerKey(sec)).v>>
    ELSE <<>>

EntriesOf(doc, sec) ==
    LET list == SectionOf(doc, sec) IN IF list = <<>> THEN <<>> ELSE list[1]

\* the section as the snapshot found it, and as the page holds it now
Before(sec) == EntriesOf(last.before, sec)
After(sec) == EntriesOf(plist_data, sec)

\* whether the snapshot scans the section: Tools only when its folder is there
Scanned(sec) == sec # "Tools" \/ IsDir(BaseFolder(disk), s_Tools)

\* the relative paths discovered for a section, in scan order
Discovered(sec) ==
    CASE sec = "ACPI" -> ScanAcpi(SubDir(BaseFolder(disk), s_ACPI))
      [] sec = "Drivers" -> ScanDrivers(SubDir(BaseFolder(disk), s_Drivers))
      [] sec = "Tools" -> ScanTools(SubDir(BaseFolder(disk), s_Tools))
      [] sec = "Kexts" ->
           LET kext_list == ScanKexts(SubDir(BaseFolder(disk), s_Kexts))
           IN [i \in 1..Len(kext_list) |-> DictGet(kext_list[i], "BundlePath").v]

\* the path of an entry: none (<<>>) or one string; a Drivers entry may be
\* the bare path, an entry of another section that is no mapping has no path
EntryPath(sec, e) ==
    IF IsDict(e)
    THEN IF DictHas(e, PathKey(sec)) /\ DictGet(e, PathKey(sec)).t = "str"
         THEN <<DictGet(e, PathKey(sec)).v>>
         ELSE <<>>
    ELSE IF sec = "Drivers" /\ e.t = "str" THEN <<e.v>> ELSE <<>>

\* two paths that are equal up to letter case
SamePath(p, q) == StrLower(p) = StrLower(q)

\* the entry's path is, up to case, among the paths found
MatchesSome(sec, e, found) ==
    /\ EntryPath(sec, e) # <<>>
    /\ \E i \in 1..Len(found) : SamePath(found[i], EntryPath(sec, e)[1])

\* the path p is, up to case, the path of some entry of list
Listed(sec, p, list) ==
    \E i \in 1..Len(list) :
        EntryPath(sec, list[i]) # <<>> /\ SamePath(p, EntryPath(sec, list[i])[1])

\* what a completed snapshot did to a section: the list before and after,
\* the paths found, the entries it started from (none in CLEAN mode), those
\* of them that it retained, the entries that stand after the retained ones,
\* and the paths found that match no entry it started from
View(sec) ==
    LET before == Before(sec)
        after == After(sec)
        found == Discovered(sec)
        existing == IF last.clean THEN <<>> ELSE before
        retained == SelectSeq(existing, LAMBDA e : MatchesSome(sec, e, found))
    IN [before |-> before,
        after |-> after,
        found |-> found,
        existing |-> existing,
        retained |-> retained,
        added |-> SubSeq(after, Len(retained) + 1, Len(after)),
        unlisted |-> SelectSeq(found, LAMBDA p : ~Listed(sec, p, existing))]

\* d[key] is there and is value
Field(d, key, value) == DictHas(d, key) /\ DictGet(d, key) = value

\* C1: a MERGE snapshot that directly follows a completed MERGE snapshot of the
\* same folder leaves ACPI.Add, Kernel.Add, UEFI.Drivers and Misc.Tools as the
\* first run left them: the same entries, field values and order.
C1_Idempotence ==
    (MergeDone /\ last.again) =>
        \A sec \in SectionNames :
            SectionOf(plist_data, sec) = SectionOf(last.before, sec)

\* C1 (case reached): a second MERGE run has completed on a document whose
\* ACPI, Kexts or Drivers list the first run had changed from what was loaded
C1_Witness ==
    /\ MergeDone /\ last.again
    /\ \E sec \in {"ACPI", "Kexts", "Drivers"} :
          /\ After(sec) # <<>>
          /\ After(sec) # EntriesOf(config_plist.plist, sec)

\* C2: after a MERGE snapshot of ACPI, Drivers or Tools, an entry of the prior
\* list is in the list if and only if its path is, up to case, among the
\* discovered paths; being in the list, it has all its field values, its Path
\* in the stored case.
C2_Retention ==
    MergeDone =>
        \A sec \in {"ACPI", "Drivers", "Tools"} :
            Scanned(sec) =>
                LET s == View(sec)
                IN \A i \in 1..Len(s.before) :
                       InList(s.before[i], s.after)
                           <=> MatchesSome(sec, s.before[i], s.found)

\* C2 (case reached): a MERGE snapshot kept an entry whose stored Path differs in
\* case from the file found, and dropped another entry of the same list
C2_Witness ==
    /\ MergeDone
    /\ \E sec \in {"ACPI", "Drivers", "Tools"} :
          /\ Scanned(sec)
          /\ \E i, j \in 1..Len(Before(sec)) :
                /\ InList(Before(sec)[i], After(sec))
                /\ EntryPath(sec, Before(sec)[i]) # <<>>
                /\ ~InList(EntryPath(sec, Before(sec)[i])[1], Discovered(sec))
                /\ ~InList(Before(sec)[j], After(sec))

\* the pairs of a mapping other than those of the given keys, in their order
Without(d, keys) == SelectSeq(d.v, LAMBDA kv : kv.k \notin keys)

\* e is a mapping of exactly n pairs
MappingOf(e, n) == IsDict(e) /\ Len(e.v) = n

\* e is the default mapping of section sec for the discovered path p
DefaultMapping(sec, e, p) ==
    /\ IsDict(e)
    /\ Field(e, "Enabled", Bool(TRUE))
    /\ Field(e, "Comment", Str(Basename(p)))
    /\ Field(e, PathKey(sec), Str(p))
    /\ CASE sec = "ACPI" -> MappingOf(e, 3)
         [] sec = "Kexts" -> /\ MappingOf(e, 8)
                             /\ Field(e, "Arch", Str(s_Any))
                             /\ Field(e, "MaxKernel", Str(<<>>))
                             /\ Field(e, "MinKernel", Str(<<>>))
                             /\ DictHas(e, "ExecutablePath")
                             /\ DictHas(e, "PlistPath")
         [] sec = "Drivers" -> /\ MappingOf(e, 5)
                               /\ Field(e, "Arguments", Str(<<>>))
                               /\ Field(e, "LoadEarly", Bool(FALSE))
         [] sec = "Tools" -> /\ MappingOf(e, 9)
                             /\ Field(e, "Arguments", Str(<<>>))
                             /\ Field(e, "Auxiliary", Bool(TRUE))
                             /\ Field(e, "Flavour", Str(s_Auto))
                             /\ Field(e, "FullNvramAccess", Bool(FALSE))
                             /\ Field(e, "RealPath", Bool(FALSE))
                             /\ Field(e, "TextMode", Bool(FALSE))

\* a Drivers list in mapping format: its first entry is a mapping
StartsWithMapping(list) == list # <<>> /\ IsDict(list[1])

\* e is what a snapshot that starts from the entries existing adds for the
\* discovered path p: the default mapping, or for a Drivers list in
\* bare-string format the path itself
DefaultEntry(sec, e, p, existing) ==
    IF sec = "Drivers" /\ ~StartsWithMapping(existing)
    THEN e = Str(p)
    ELSE DefaultMapping(sec, e, p)

\* how many entries of list have exactly the path p
Count(sec, list, p) ==
    Cardinality({i \in 1..Len(list) : EntryPath(sec, list[i]) = <<p>>})

ScannedKexts == ScanKexts(SubDir(BaseFolder(disk), s_Kexts))

\* e is the entry built afresh for the discovered path p: for a kext the
\* entry as scanned, with the bundle's own ExecutablePath and PlistPath
FreshEntry(sec, e, p) ==
    IF sec = "Kexts"
    THEN \E i \in 1..Len(ScannedKexts) :
            DictGet(ScannedKexts[i], "BundlePath") = Str(p) /\ e = ScannedKexts[i]
    ELSE DefaultEntry(sec, e, p, <<>>)

\* C4 (as claimed): after a CLEAN snapshot every scanned section holds exactly
\* one freshly built default entry per discovered path and nothing else, so
\* no field value of a prior entry survives.
C4_CleanMode ==
    CleanDone =>
        \A sec \in SectionNames :
            Scanned(sec) =>
                LET s == View(sec)
                IN /\ Len(s.after) = Len(s.found)
                   /\ \A k \in 1..Len(s.found) :
                         /\ Count(sec, s.after, s.found[k]) = 1
                         /\ \E i \in 1..Len(s.after) :
                               FreshEntry(sec, s.after[i], s.found[k])

\* the first of the scanned kexts whose BundlePath is, up to case, that of e
FirstMatch(e, kext_list) ==
    kext_list[CHOOSE i \in 1..Len(kext_list) :
        /\ SamePath(DictGet(kext_list[i], "BundlePath").v, EntryPath("Kexts", e)[1])
        /\ \A j \in 1..(i - 1) :
              ~SamePath(DictGet(kext_list[j], "BundlePath").v, EntryPath("Kexts", e)[1])]

PathKeys == {"ExecutablePath", "PlistPath"}

\* C5: after a MERGE snapshot every prior Kernel.Add entry whose BundlePath
\* matches, up to case, a discovered kext is retained with ExecutablePath and
\* PlistPath as scanned (of the first discovered kext it matches) and with
\* every other pair (Arch, BundlePath, Comment, Enabled, MaxKernel, MinKernel,
\* extra keys) as it was, in the same key order.
C5_KextRefresh ==
    MergeDone =>
        LET s == View("Kexts")
            kext_list == ScannedKexts
        IN /\ Len(s.after) >= Len(s.retained)
           /\ \A i \in 1..Len(s.retained) :
                 LET scanned == FirstMatch(s.retained[i], kext_list)
                 IN /\ IsDict(s.after[i])
                    /\ Field(s.after[i], "ExecutablePath",
                             DictGet(scanned, "ExecutablePath"))
                    /\ Field(s.after[i], "PlistPath", DictGet(scanned, "PlistPath"))
                    /\ Without(s.after[i], PathKeys) = Without(s.retained[i], PathKeys)

\* C5 (case reached): a MERGE snapshot kept a kext entry with a MinKernel set
\* by the user and replaced its stale ExecutablePath and PlistPath
C5_Witness ==
    /\ MergeDone
    /\ \E i \in 1..Len(View("Kexts").retained) :
          LET old == View("Kexts").retained[i]
              new == After("Kexts")[i]
          IN /\ Field(old, "MinKernel", Str(<<"1", "9", ".", "0", ".", "0">>))
             /\ Field(new, "MinKernel", Str(<<"1", "9", ".", "0", ".", "0">>))
             /\ DictGet(new, "ExecutablePath") # DictGet(old, "ExecutablePath")
             /\ DictGet(new, "PlistPath") # DictGet(old, "PlistPath")

\* what of an entry a snapshot must leave alone
Kept(sec, e) == IF sec = "Kexts" THEN Without(e, PathKeys) ELSE e

\* C6: after a MERGE snapshot of any section the retained entries stand first,
\* in the relative order they had before, and every entry after them is new:
\* its path matches no entry of the prior list.
C6_Ordering ==
    MergeDone =>
        \A sec \in SectionNames :
            Scanned(sec) =>
                LET s == View(sec)
                IN /\ Len(s.after) >= Len(s.retained)
                   /\ \A i \in 1..Len(s.retained) :
                         Kept(sec, s.after[i]) = Kept(sec, s.retained[i])
                   /\ \A i \in 1..Len(s.added) :
                         /\ EntryPath(sec, s.added[i]) # <<>>
                         /\ ~Listed(sec, EntryPath(sec, s.added[i])[1], s.before)

\* C6 (case reached): a MERGE snapshot retained two entries that do not stand
\* in sorted order and added a new one
C6_Witness ==
    /\ MergeDone
    /\ \E sec \in SectionNames :
          /\ Scanned(sec)
          /\ Len(View(sec).retained) = 2
          /\ StrLess(StrLower(EntryPath(sec, View(sec).retained[2])[1]),
                     StrLower(EntryPath(sec, View(sec).retained[1])[1]))
          /\ View(sec).added # <<>>

\* the lowered paths of the added entries
AddedKeys(sec, added) ==
    [i \in 1..Len(added) |-> StrLower(EntryPath(sec, added[i])[1])]

\* C7 (as claimed): the entries added by one snapshot to a section stand in
\* case-insensitive lexicographic order of their relative path, a nested kext
\* A.kext/Contents/PlugIns/X.kext between A.kext and B.kext.
C7_NewEntriesSorted ==
    SnapshotDone =>
        \A sec \in SectionNames :
            Scanned(sec) =>
                LET keys == AddedKeys(sec, View(sec).added)
                IN \A i, j \in 1..Len(keys) : i < j => ~StrLess(keys[j], keys[i])

\* e is a Drivers mapping with Enabled = true and the four other keys
DriverMapping(e) ==
    /\ IsDict(e)
    /\ Field(e, "Enabled", Bool(TRUE))
    /\ \A key \in {"Arguments", "Comment", "LoadEarly", "Path"} : DictHas(e, key)

\* C8 (as claimed): when the prior UEFI.Drivers list holds a mapping, at any
\* place, every driver entry a snapshot adds, in either mode, is a mapping
\* with Enabled = true, never a bare string.
C8_DriverFormatConsistency ==
    (SnapshotDone /\ \E i \in 1..Len(Before("Drivers")) : IsDict(Before("Drivers")[i])) =>
        LET added == View("Drivers").added
        IN \A i \in 1..Len(added) : DriverMapping(added[i])

\* C9 (as claimed): every driver entry a snapshot adds has the format of the
\* first entry of the Drivers list as it was before the call: a mapping if
\* that is a mapping, a bare string if it is a string or the list was empty.
C9_DriverFormatSniffing ==
    SnapshotDone =>
        LET s == View("Drivers")
        IN \A i \in 1..Len(s.added) :
               IF StartsWithMapping(s.before)
               THEN DriverMapping(s.added[i])
               ELSE s.added[i].t = "str"

\* the selected folder has no Tools directory
NoToolsFolder == ~IsDir(BaseFolder(disk), s_Tools)

\* the Misc value of a document: none (<<>>) or one (<<value>>)
MiscOf(doc) == IF DictHas(doc, "Misc") THEN <<DictGet(doc, "Misc")>> ELSE <<>>

\* value has a lower(): a str or bytes
CanLower(value) == value.t \in {"str", "data"}

\* nothing in the ACPI, Kernel and UEFI parts of doc makes a handler raise
ThreeWellFormed(doc) ==
    \A sec \in {"ACPI", "Kexts", "Drivers"} :
        DictHas(doc, OuterKey(sec)) =>
            /\ IsDict(DictGet(doc, OuterKey(sec)))
            /\ DictHas(DictGet(doc, OuterKey(sec)), InnerKey(sec)) =>
                  /\ SectionOf(doc, sec) # <<>>
                  /\ \A i \in 1..Len(EntriesOf(doc, sec)) :
                        LET e == EntriesOf(doc, sec)[i]
                        IN IF IsDict(e)
                           THEN DictHas(e, PathKey(sec)) => CanLower(DictGet(e, PathKey(sec)))
                           ELSE sec = "Drivers" => CanLower(e)

\* C10: when the folder has no Tools directory, a snapshot in either mode that
\* finds nothing wrong in the ACPI, Kernel and UEFI parts completes, and
\* a completed snapshot leaves Misc as it was: not created, Misc.Tools not
\* created, not emptied, no entry added, removed or moved.
C10_OptionalTools ==
    (last.op = "snapshot" /\ last.outcome \in {"done", "error"} /\ NoToolsFolder) =>
        /\ ThreeWellFormed(last.before) => last.outcome = "done"
        /\ last.outcome = "done" => MiscOf(plist_data) = MiscOf(last.before)

\* C10 (case reached): a snapshot without a Tools directory completed, changed
\* one of the three other sections and left a Misc.Tools list with entries
C10_Witness ==
    /\ SnapshotDone /\ NoToolsFolder
    /\ Before("Tools") # <<>>
    /\ After("Tools") = Before("Tools")
    /\ \E sec \in {"ACPI", "Kexts", "Drivers"} : After(sec) # Before(sec)

\* the directories below the Kexts folder whose name the scan takes for a
\* kext, in scan order
KextFolders == SelectSeq(WalkDirs(OsWalk(SubDir(BaseFolder(disk), s_Kexts), <<>>)),
                         LAMBDA d : KextNameAccepted(d.name))

\* the files named Info.plist anywhere beneath a directory, in walk order
InfoPlistsBeneath(node) ==
    SelectSeq(WalkFiles(OsWalk(node, <<>>)), LAMBDA f : f.name = s_Info_plist)

\* what plistlib.load makes of the file at a path relative to node
ContentAt(node, rel_path) ==
    LET RECURSIVE Find(_, _)
        Find(n, root) ==
            LET here == SelectSeq(n.kids, LAMBDA k : k.kind = "file"
                                     /\ JoinPath(Append(root, k.name)) = rel_path)
                dirs == SelectSeq(n.kids, LAMBDA k : k.kind = "dir")
                RECURSIVE Below(_)
                Below(i) == IF i > Len(dirs) THEN <<>>
                            ELSE Find(dirs[i], Append(root, dirs[i].name)) \o Below(i + 1)
            IN [i \in 1..Len(here) |-> here[i].content] \o Below(1)
    IN Find(node, <<>>)[1]

\* a kext directory that the scan must reject: no Info.plist beneath it, or
\* its Info.plist (the first one found) does not parse or has no
\* CFBundleIdentifier
Rejected(node) ==
    LET plists == InfoPlistsBeneath(node)
    IN \/ plists = <<>>
       \/ ~ContentAt(node, plists[1].rel_path).parses
       \/ ~ContentAt(node, plists[1].rel_path).id

\* the Misc part of doc gives the Tools handler nothing to raise on
MiscWellFormed(doc) ==
    DictHas(doc, "Misc") =>
        /\ IsDict(DictGet(doc, "Misc"))
        /\ DictHas(DictGet(doc, "Misc"), "Tools") =>
              /\ SectionOf(doc, "Tools") # <<>>
              /\ \A i \in 1..Len(EntriesOf(doc, "Tools")) :
                    LET e == EntriesOf(doc, "Tools")[i]
                    IN (IsDict(e) /\ DictHas(e, "Path")) => CanLower(DictGet(e, "Path"))

\* the snapshot that ran last went through the four handlers
HandlersRan == last.op = "snapshot" /\ last.outcome \in {"done", "error"}

\* C11: a directory named *.kext without an Info.plist beneath it, or whose
\* Info.plist does not parse or has no CFBundleIdentifier, raises no error,
\* has no entry in Kernel.Add after the snapshot, and does not stop the scan:
\* every other kext directory, one nested in a rejected bundle included, has
\* its entry.
C11_KextRejection ==
    (HandlersRan /\ \E i \in 1..Len(KextFolders) : Rejected(KextFolders[i].node)) =>
        /\ (ThreeWellFormed(last.before)
               /\ (NoToolsFolder \/ MiscWellFormed(last.before)))
              => last.outcome = "done"
        /\ last.outcome = "done" =>
              LET folders == KextFolders
                  after == After("Kexts")
              IN \A i \in 1..Len(folders) :
                     Listed("Kexts", folders[i].rel_path, after)
                         <=> ~Rejected(folders[i].node)

\* C11 (case reached): a snapshot completed on a Kexts folder with a bundle
\* without Info.plist, one without CFBundleIdentifier and one whose Info.plist
\* does not parse, and Kernel.Add has the entry of the kext nested in the last
C11_Witness ==
    /\ SnapshotDone
    /\ \E i, j, k, n \in 1..Len(KextFolders) :
          /\ InfoPlistsBeneath(KextFolders[i].node) = <<>>
          /\ InfoPlistsBeneath(KextFolders[j].node) # <<>>
          /\ Rejected(KextFolders[j].node)
          /\ ContentAt(KextFolders[j].node,
                       InfoPlistsBeneath(KextFolders[j].node)[1].rel_path).parses
          /\ InfoPlistsBeneath(KextFolders[k].node) # <<>>
          /\ ~ContentAt(KextFolders[k].node,
                        InfoPlistsBeneath(KextFolders[k].node)[1].rel_path).parses
          /\ StartsWith(KextFolders[n].rel_path, KextFolders[k].rel_path \o <<"/">>)
          /\ Listed("Kexts", KextFolders[n].rel_path, After("Kexts"))

\* the folders a reference directory must hold
Required == <<s_ACPI, s_Drivers, s_Kexts>>

\* the required folders that a directory does not hold
Lacking(folder) == SelectSeq(Required, LAMBDA name : ~IsDir(folder, name))

\* the selected directory lacks a required folder, and so does its OC child
\* if it has one
InvalidLayout ==
    /\ Lacking(disk) # <<>>
    /\ IsDir(disk, s_OC) => Lacking(SubDir(disk, s_OC)) # <<>>

\* the directory that was validated last: the OC child if there is one
LastValidated == IF IsDir(disk, s_OC) THEN SubDir(disk, s_OC) ELSE disk

\* C12: a snapshot of a loaded document against a selected directory that
\* lacks one of ACPI, Drivers, Kexts, and whose OC child (if any) lacks one
\* too, reports the error that names the missing folders, runs no handler,
\* and leaves tree and plist_data as they were.
C12_LayoutValidation ==
    [][(InvalidLayout /\ ~Falsy(plist_data) /\ last'.op = "snapshot") =>
          /\ last'.outcome = "bad_folder"
          /\ message'.title = "Incorrect OC Folder Structure"
          /\ message'.detail = Lacking(LastValidated)
          /\ message'.detail # <<>>
          /\ tree' = tree
          /\ plist_data' = plist_data]_vars

\* C12 (case reached): the snapshot refused a selected directory and its OC
\* child, which lack different folders, and named those the child lacks
C12_Witness ==
    /\ last.op = "snapshot"
    /\ last.outcome = "bad_folder"
    /\ InvalidLayout
    /\ IsDir(disk, s_OC)
    /\ Lacking(disk) # Lacking(SubDir(disk, s_OC))
    /\ message.detail = Lacking(SubDir(disk, s_OC))
    /\ plist_data # None

\* the one base directory: the selected directory when it holds the three
\* required folders, else its OC child
OneBase == IF Lacking(disk) = <<>> THEN disk ELSE SubDir(disk, s_OC)

\* the paths the scan of a section accepts under a base directory
DiscoveredUnder(base, sec) ==
    CASE sec = "ACPI" -> ScanAcpi(SubDir(base, s_ACPI))
      [] sec = "Drivers" -> ScanDrivers(SubDir(base, s_Drivers))
      [] sec = "Tools" -> IF IsDir(base, s_Tools)
                          THEN ScanTools(SubDir(base, s_Tools)) ELSE <<>>
      [] sec = "Kexts" ->
           LET kext_list == ScanKexts(SubDir(base, s_Kexts))
           IN [i \in 1..Len(kext_list) |-> DictGet(kext_list[i], "BundlePath").v]

\* C13: a completed snapshot took all four sections from one base directory,
\* the selected directory when it holds ACPI, Drivers and Kexts and else its
\* OC child: every path found under that base is listed, every entry that
\* was not in the list before is of a path found under that base, and
\* Misc.Tools is as before when that base has no Tools directory.
C13_OneBase ==
    SnapshotDone =>
        /\ Lacking(disk) # <<>> =>
              IsDir(disk, s_OC) /\ Lacking(SubDir(disk, s_OC)) = <<>>
        /\ \A sec \in SectionNames :
              LET before == Before(sec)
                  after == After(sec)
                  found == DiscoveredUnder(OneBase, sec)
              IN /\ \A i \in 1..Len(found) : Listed(sec, found[i], after)
                 /\ \A i \in 1..Len(after) :
                       (\A j \in 1..Len(before) : before[j] # after[i])
                           => MatchesSome(sec, after[i], found)
        /\ ~IsDir(OneBase, s_Tools) =>
              SectionOf(plist_data, "Tools") = SectionOf(last.before, "Tools")

\* C13 (case reached): a snapshot completed on a selected directory that
\* has Tools but not the three required folders, with the sections of its
\* OC child, which has no Tools
C13_Witness ==
    /\ SnapshotDone
    /\ Lacking(disk) # <<>>
    /\ IsDir(disk, s_Tools)
    /\ ~IsDir(SubDir(disk, s_OC), s_Tools)
    /\ After("ACPI") # <<>>
    /\ After("Tools") = Before("Tools")

\* the sections in the order their handlers are called
SectionOrder == <<"ACPI", "Kexts", "Drivers", "Tools">>

\* what the first n handlers make of the document the last snapshot
\* started from, each working on what the one before left
RECURSIVE AfterHandlers(_)
AfterHandlers(n) ==
    IF n = 0 THEN Returned(last.before)
    ELSE LET base == BaseFolder(disk)
             sofar == AfterHandlers(n - 1).tree_data
         IN CASE n = 1 -> SnapshotAcpi(sofar, SubDir(base, s_ACPI), last.clean)
              [] n = 2 -> SnapshotKexts(sofar, SubDir(base, s_Kexts), last.clean)
              [] n = 3 -> SnapshotDrivers(sofar, SubDir(base, s_Drivers), last.clean)
              [] n = 4 -> SnapshotTools(sofar, ToolsPath(base), last.clean)

\* the handler that raised: the first one whose run raises
RaisedAt ==
    CHOOSE k \in 1..4 :
        /\ AfterHandlers(k).raised
        /\ \A j \in 1..(k - 1) : ~AfterHandlers(j).raised

\* C14: when the handler of section k raises, the document the page holds
\* after the call (plist_data and the tree) has the sections after k as
\* they were and the sections before k as their handlers left them.
C14_FailureSemantics ==
    (last.op = "snapshot" /\ last.outcome = "error") =>
        \E held \in {GetTreeData(tree)} :
            \A j \in 1..4 :
                /\ j > RaisedAt =>
                      /\ SectionOf(plist_data, SectionOrder[j])
                            = SectionOf(last.before, SectionOrder[j])
                      /\ SectionOf(held, SectionOrder[j])
                            = SectionOf(last.before, SectionOrder[j])
                /\ j < RaisedAt =>
                      /\ SectionOf(plist_data, SectionOrder[j])
                            = SectionOf(AfterHandlers(j).tree_data, SectionOrder[j])
                      /\ SectionOf(held, SectionOrder[j])
                            = SectionOf(AfterHandlers(j).tree_data, SectionOrder[j])

\* the keys of a mapping, in their order
Keys(d) == [i \in 1..Len(d.v) |-> d.v[i].k]

\* s is the beginning of t
IsPrefix(s, t) == Len(s) <= Len(t) /\ SubSeq(t, 1, Len(s)) = s

\* the key of each container and the key of its section list
Containers == {"ACPI", "Kernel", "UEFI", "Misc"}
ListKey(outer) ==
    CASE outer = "ACPI" -> "Add"
      [] outer = "Kernel" -> "Add"
      [] outer = "UEFI" -> "Drivers"
      [] outer = "Misc" -> "Tools"

\* mapping e is mapping d but for the keys in free: the keys of d stand in
\* e in the same order, a key that e has more is in free and stands after
\* them, and the value of every key of d that is not in free is the same
SameBut(d, e, free) ==
    /\ IsPrefix(Keys(d), Keys(e))
    /\ \A i \in 1..Len(e.v) :
          IF i > Len(d.v) THEN e.v[i].k \in free
          ELSE e.v[i].k \in free \/ e.v[i].v = d.v[i].v

\* document e is document d but for the four section lists and the
\* containers that had to be made for them
Frame(d, e) ==
    /\ IsDict(d) /\ IsDict(e)
    /\ SameBut(d, e, Containers)
    /\ \A outer \in Containers :
          DictHas(d, outer) =>
              IF IsDict(DictGet(d, outer))
              THEN /\ IsDict(DictGet(e, outer))
                   /\ SameBut(DictGet(d, outer), DictGet(e, outer), {ListKey(outer)})
              ELSE DictGet(e, outer) = DictGet(d, outer)
    /\ \A outer \in Containers :
          (~DictHas(d, outer) /\ DictHas(e, outer)) =>
              /\ IsDict(DictGet(e, outer))
              /\ Keys(DictGet(e, outer)) = <<ListKey(outer)>>

\* C15: a snapshot that completes changes nothing in the document the page
\* holds but the four section lists and the containers it has to make: the
\* other top-level keys, the other keys of ACPI, Kernel, UEFI and Misc, and
\* the order of the keys are as before, and the tree shows that document.
C15_Frame ==
    [][(last'.op = "snapshot" /\ last'.outcome = "done") =>
          /\ Frame(plist_data, plist_data')
          /\ GetTreeData(tree') = plist_data']_vars

\* C15 (case reached): a snapshot completed on a document without ACPI whose
\* Misc had a key but not Tools; ACPI was made and Misc got its Tools
C15_Witness ==
    /\ SnapshotDone
    /\ ~DictHas(last.before, "ACPI")
    /\ DictHas(plist_data, "ACPI")
    /\ DictHas(last.before, "Misc")
    /\ IsDict(DictGet(last.before, "Misc"))
    /\ Keys(DictGet(last.before, "Misc")) # <<>>
    /\ ~DictHas(DictGet(last.before, "Misc"), "Tools")
    /\ DictHas(DictGet(plist_data, "Misc"), "Tools")
    /\ Frame(last.before, plist_data)

\* C16: what Save writes after a document was loaded, the tree made from it
\* and the data taken from the tree again, is that document: same keys in
\* the same order, same sequences, same leaves.
C16_RoundTrip ==
    /\ (last.op = "load" /\ last.outcome = "done") => GetTreeData(tree) = plist_data
    /\ (last.op = "save" /\ last.outcome = "done") => config_plist.plist = plist_data

\* the same for the documents whose root is a mapping
RoundTripOfMappings ==
    IsDict(plist_data) =>
        /\ (last.op = "load" /\ last.outcome = "done") => GetTreeData(tree) = plist_data
        /\ (last.op = "save" /\ last.outcome = "done") => config_plist.plist = plist_data

\* the document the last snapshot was asked to work on
Loaded == IF HandlersRan THEN last.before ELSE plist_data

\* a mapping with nothing in it that makes a handler raise
WellFormed(doc) ==
    /\ IsDict(doc)
    /\ ThreeWellFormed(doc)
    /\ NoToolsFolder \/ MiscWellFormed(doc)

\* the four lists are in the document the page holds, Misc.Tools if the
\* base folder has a Tools directory
ListsPresent ==
    \A sec \in SectionNames :
        (sec = "Tools" => IsDir(OneBase, s_Tools)) => SectionOf(plist_data, sec) # <<>>

\* C17: after a snapshot of a loaded document, the empty mapping and one
\* without ACPI, Kernel or UEFI included, against a directory of valid
\* layout, ACPI.Add, Kernel.Add and UEFI.Drivers are lists of the document,
\* and so is Misc.Tools when there is a Tools directory.
C17_ContainerCreation ==
    (last.op = "snapshot" /\ ~InvalidLayout /\ WellFormed(Loaded)) => ListsPresent

\* the same for the documents that are not the empty mapping
ContainerCreationUnlessEmpty ==
    (last.op = "snapshot" /\ ~InvalidLayout /\ WellFormed(Loaded) /\ Loaded # Dict(<<>>))
        => ListsPresent

\* a snapshot made the three containers of a document that had none of them
ContainersMade ==
    /\ SnapshotDone
    /\ \A outer \in {"ACPI", "Kernel", "UEFI"} : ~DictHas(last.before, outer)
    /\ ListsPresent

\* the section list of the document a handler works on
DocumentList == SectionList(handler_data, Outer(locals.sec), "Add")

\* the handler taken statement by statement leaves what the handler taken
\* as a whole leaves
StepsAgree ==
    locals.pc = "done" =>
        handler_data =
            (IF locals.sec = "ACPI"
             THEN SnapshotAcpi(locals.start, SubDir(BaseFolder(disk), s_ACPI), locals.clean)
             ELSE SnapshotKexts(locals.start, SubDir(BaseFolder(disk), s_Kexts),
                                locals.clean)).tree_data

\* the list the handler that runs will have written when it returns
FinalList ==
    SectionList((IF locals.sec = "ACPI"
                 THEN SnapshotAcpi(locals.start, SubDir(BaseFolder(disk), s_ACPI),
                                   locals.clean)
                 ELSE SnapshotKexts(locals.start, SubDir(BaseFolder(disk), s_Kexts),
                                    locals.clean)).tree_data,
                Outer(locals.sec), "Add")

\* C18: while a handler reconciles its section, the list that the document
\* holds is never in between: it is the prior list, with no entry appended,
\* none pruned and no kext path set, or it is the final list.
C18_AtomicReplacement ==
    locals.pc \in {"append", "prune", "assign"} =>
        \/ DocumentList = locals.prior
        \/ DocumentList = FinalList

\* the same in CLEAN mode only, where the list is the prior one until the
\* assignment
AtomicWhenClean ==
    (locals.pc \in {"append", "prune", "assign"} /\ locals.clean)
        => DocumentList = locals.prior

\* what a directory holds
Kids(node) == {node.kids[i] : i \in 1..Len(node.kids)}

\* the Info.plist of a kext directory, as parsed: the first one beneath it
InfoOf(node) == ContentAt(node, InfoPlistsBeneath(node)[1].rel_path)

\* the files called name in Contents/MacOS of a bundle
MacOSFiles(node, name) ==
    {f \in UNION {Kids(m) : m \in {m \in UNION {Kids(c) : c \in {c \in Kids(node) :
                                        c.kind = "dir" /\ c.name = s_Contents}} :
                                   m.kind = "dir" /\ m.name = s_MacOS}} :
        f.kind = "file" /\ f.name = name}

\* the ExecutablePath by the rule: Contents/MacOS/<name> when the Info.plist
\* declares <name> and that file is there and not empty, else the empty string
RuledExecutablePath(node) ==
    LET info == InfoOf(node)
    IN IF info.exe # <<>> /\ \E f \in MacOSFiles(node, info.exe[1]) : f.size > 0
       THEN <<"C", "o", "n", "t", "e", "n", "t", "s", "/", "M", "a", "c", "O", "S", "/">>
                \o info.exe[1]
       ELSE <<>>

\* the scan of the Kexts folder has been made by the handler that runs
KextsScanned == locals.sec = "Kexts" /\ locals.pc \in {"append", "prune", "assign", "done"}

\* the directory a scanned kext entry was made for
FolderOf(kext) ==
    LET folders == KextFolders
    IN folders[CHOOSE i \in 1..Len(folders) :
                   folders[i].rel_path = DictGet(kext, "BundlePath").v].node

RECURSIVE FilesBeneath(_, _)
FilesBeneath(node, prefix) ==
    {[name |-> f.name, path |-> prefix \o f.name] : f \in {k \in Kids(node) : k.kind = "file"}}
    \cup UNION {FilesBeneath(d, prefix \o d.name \o <<"/">>) :
                   d \in {k \in Kids(node) : k.kind = "dir"}}

\* the name ends in the extension, whatever the case of its letters
HasExtension(name, ext) ==
    /\ Len(name) >= Len(ext)
    /\ StrLower(SubSeq(name, Len(name) - Len(ext) + 1, Len(name))) = ext

Hidden(name) == name # <<>> /\ name[1] = "."

\* the folder of a section under the base directory
SectionFolder(sec) ==
    SubDir(OneBase, CASE sec = "ACPI" -> s_ACPI
                      [] sec = "Drivers" -> s_Drivers
                      [] sec = "Tools" -> s_Tools)

\* the paths of the entries a section list holds
PathsOf(sec, list) ==
    {EntryPath(sec, list[i])[1] : i \in {i \in 1..Len(list) : EntryPath(sec, list[i]) # <<>>}}

\* the file sections that a snapshot of this folder scans
FileSections == {"ACPI", "Drivers"} \cup (IF IsDir(OneBase, s_Tools) THEN {"Tools"} ELSE {})

\* C20, with hidden files left out of Drivers and Tools as well: after a
\* completed CLEAN snapshot the paths of ACPI.Add are those of the files
\* beneath ACPI whose name does not start with a dot and ends in .aml or .bin,
\* the paths of UEFI.Drivers and of Misc.Tools those of the files beneath
\* Drivers and Tools whose name does not start with a dot and ends in .efi,
\* in any case of the letters, each relative to its folder with forward
\* slashes.
C20_Discovery ==
    CleanDone =>
        \A sec \in FileSections :
            PathsOf(sec, After(sec)) =
                {f.path : f \in {f \in FilesBeneath(SectionFolder(sec), <<>>) :
                    /\ ~Hidden(f.name)
                    /\ IF sec = "ACPI"
                       THEN HasExtension(f.name, s_aml) \/ HasExtension(f.name, s_bin)
                       ELSE HasExtension(f.name, s_efi)}}

\* C20 as stated: a file beneath Drivers or Tools is taken whenever its name
\* ends in .efi, hidden or not
C20_AsClaimed ==
    CleanDone =>
        \A sec \in FileSections :
            PathsOf(sec, After(sec)) =
                {f.path : f \in {f \in FilesBeneath(SectionFolder(sec), <<>>) :
                    IF sec = "ACPI"
                    THEN /\ ~Hidden(f.name)
                         /\ HasExtension(f.name, s_aml) \/ HasExtension(f.name, s_bin)
                    ELSE HasExtension(f.name, s_efi)}}

\* C20 (case reached): a CLEAN snapshot completed on a Drivers folder with a
\* hidden .efi file, a file of another extension, and a file in a
\* sub-folder whose extension is in capitals, which is listed with its
\* sub-folder and a forward slash
C20_Witness ==
    /\ CleanDone
    /\ \E f, g, h \in FilesBeneath(SectionFolder("Drivers"), <<>>) :
          /\ Hidden(f.name) /\ HasExtension(f.name, s_efi)
          /\ f.path \notin PathsOf("Drivers", After("Drivers"))
          /\ ~HasExtension(g.name, s_efi)
          /\ g.path \notin PathsOf("Drivers", After("Drivers"))
          /\ h.path # h.name
          /\ ~EndsWith(h.name, s_efi)
          /\ h.path \in PathsOf("Drivers", After("Drivers"))

\* C21: a load that fails because the file does not parse leaves plist_data,
\* current_file, the tree and the enabled state of the buttons as they were
\* (a cancelled file dialog leaves everything as it was).
C21_FailedLoad ==
    [][(last'.op = "load" /\ last'.outcome = "error") =>
          /\ plist_data' = plist_data
          /\ current_file' = current_file
          /\ tree' = tree
          /\ buttons' = buttons]_vars

\* C21 (case reached): a load failed while a document was loaded, and the
\* page still holds that document with its buttons enabled
C21_Witness ==
    /\ last.op = "load"
    /\ last.outcome = "error"
    /\ message.title = "Error Loading File"
    /\ IsDict(plist_data)
    /\ tree # <<>>
    /\ buttons.save /\ buttons.snapshot
    /\ ~config_plist.parses

\* a step in which start_build did anything at all
StartBuildStep ==
    build_page' # build_page /\ build_page'.called = "start_build"

\* C22: start_build calls build_efi() only when the hardware report is
\* loaded; when it is not, start_build calls nothing of the build pipeline
\* and leaves build_in_progress, build_successful, the build button, the
\* activity feed and the build log as they were.
C22_BuildPrecondition ==
    [][/\ controller'.builds > controller.builds => controller.hardware_report
       /\ (StartBuildStep /\ ~controller.hardware_report) =>
             /\ controller' = controller
             /\ build_page'.build_in_progress = build_page.build_in_progress
             /\ build_page'.build_successful = build_page.build_successful
             /\ build_page'.build_btn = build_page.build_btn
             /\ build_page'.log_entries = build_page.log_entries
             /\ build_page'.build_log = build_page.build_log]_vars

\* start_build was refused after a build had succeeded and fed the page
C22_Witness ==
    /\ build_page.called = "start_build"
    /\ build_page.info_bar = "Hardware Report Required"
    /\ ~controller.hardware_report
    /\ controller.builds = 0
    /\ build_page.build_successful
    /\ build_page.log_entries # <<>>
    /\ Len(build_page.build_log) > 1

\* C23: from the step in which start_build begins a build until
\* on_build_complete the build button is disabled, so build_efi() is never
\* called while build_in_progress is true and at most one build is under
\* way; after on_build_complete, whatever it reports, the button is enabled
\* and build_in_progress is false.
C23_NoReentrantBuild ==
    [][/\ controller'.builds > controller.builds => ~build_page.build_in_progress
       /\ controller'.builds <= 1
       /\ build_page'.build_in_progress <=> controller'.builds = 1
       /\ build_page'.build_in_progress => ~build_page'.build_btn.enabled
       /\ (build_page' # build_page /\ build_page'.called = "on_build_complete") =>
             /\ build_page'.build_btn.enabled
             /\ ~build_page'.build_in_progress]_vars

\* a build under way that was started after an earlier build had reported back
C23_Witness ==
    /\ build_page.called = "start_build"
    /\ build_page.build_in_progress
    /\ ~build_page.build_btn.enabled
    /\ controller.builds = 1
    /\ build_page.info_bar \in {"Build Complete", "Build Failed"}

\* C24: build_in_progress and build_successful are never both true, and the
\* success card is visible only if build_successful is true and
\* build_in_progress is false; while a build is under way neither the success
\* card nor the card of post-build instructions is visible.
C24_ResultState ==
    /\ ~(build_page.build_in_progress /\ build_page.build_successful)
    /\ build_page.success_card =>
          build_page.build_successful /\ ~build_page.build_in_progress
    /\ build_page.build_in_progress =>
          /\ ~build_page.success_card
          /\ ~build_page.instructions_after_build_card

\* a build under way, started from a page that showed the success of the
\* build before it, and refreshed since
C24_Witness ==
    /\ build_page.build_in_progress
    /\ build_page.called = "refresh"
    /\ build_page.info_bar = "Build Complete"
    /\ ~build_page.success_card
    /\ ~build_page.instructions_after_build_card

\* the entries added since the feed was last cleared, oldest first
Added == [i \in 1..build_page.widgets |-> i]

\* C25: the activity feed never holds more than MAX_ACTIVITY_LOG_ENTRIES
\* entries, and it holds the most recent of the entries added since it was
\* last cleared, in the order in which they were added: an entry added to a
\* full feed removes the oldest one.
C25_BoundedFeed ==
    LET feed == build_page.log_entries
        kept == IF build_page.widgets > MAX_ACTIVITY_LOG_ENTRIES
                THEN MAX_ACTIVITY_LOG_ENTRIES
                ELSE build_page.widgets
    IN /\ Len(feed) <= MAX_ACTIVITY_LOG_ENTRIES
       /\ Len(feed) = kept
       /\ \A i \in 1..Len(feed) :
             feed[i].id = Added[build_page.widgets - kept + i]

\* a full feed to which entries were added, during a build and after it
C25_Witness ==
    /\ Len(build_page.log_entries) = MAX_ACTIVITY_LOG_ENTRIES
    /\ build_page.widgets > MAX_ACTIVITY_LOG_ENTRIES + 1
    /\ build_page.called = "add_log_entry"
    /\ build_page.info_bar = "Build Failed"

\* the stored entries of the console whose level is the selected one (any
\* level for "All", letter case aside) and whose text holds the trimmed
\* search text, letter case aside
Selected ==
    LET stored == console_page.log_entries
        wanted == StrLower(Strip(console_page.search_input))
    IN {i \in 1..Len(stored) :
           /\ \/ console_page.level_filter = s_All
              \/ StrLower(stored[i].level) = StrLower(console_page.level_filter)
           /\ \E from \in 1..(Len(stored[i].text) + 1) :
                 \E to \in (from - 1)..Len(stored[i].text) :
                    StrLower(SubSeq(stored[i].text, from, to)) = wanted}

\* their texts in the order in which they were appended, one to a line
SelectedText ==
    JoinLines(Pick([i \in 1..Len(console_page.log_entries) |->
                       <<console_page.log_entries[i].text>>], Selected))

\* a step that changes a filter leaves the stored entries as they are
FiltersKeepEntries ==
    (\/ console_page'.level_filter # console_page.level_filter
     \/ console_page'.search_input # console_page.search_input) =>
        console_page'.log_entries = console_page.log_entries

\* C26 as stated: the console always shows exactly the selected entries, in
\* the order in which they were appended.
C26_AsClaimed ==
    console_page.console_text = SelectedText

\* C26: the console shows exactly the selected entries, in the order in which
\* they were appended, whenever there is one; when there is none it shows a
\* notice instead; and changing a filter never changes the stored entries.
C26_Filtering ==
    /\ [](console_page.console_text =
             IF Selected # {} THEN SelectedText
             ELSE IF console_page.log_entries # <<>> THEN NoMatchText
             ELSE WaitingText)
    /\ [][FiltersKeepEntries]_vars

\* both filters are set, the search text with blanks and capitals, and they
\* select some of three stored entries, but not all
C26_Witness ==
    /\ Len(console_page.log_entries) = 3
    /\ console_page.level_filter = s_Error
    /\ console_page.search_input = <<" ", "E", "R", "R", " ">>
    /\ Selected # {}
    /\ Cardinality(Selected) < 3
    /\ console_page.visible_count = Cardinality(Selected)

\* C27: when a section handler raises, the tree and plist_data are what they
\* were before the snapshot was started: no section shows a change, not even
\* those whose handlers had already returned.
C27_FailedSnapshot ==
    [][(last'.op = "snapshot" /\ last'.outcome = "error") =>
          /\ tree' = tree
          /\ plist_data' = plist_data]_vars

\* a handler raised after an earlier one had changed its section of the copy
C27_Witness ==
    /\ last.op = "snapshot"
    /\ last.outcome = "error"
    /\ message.title = "Snapshot Error"
    /\ RaisedAt >= 2
    /\ AfterHandlers(RaisedAt - 1).tree_data # last.before
    /\ GetTreeData(tree) = last.before

\* no two entries of list have paths that are equal up to letter case
NoTwins(sec, list) ==
    \A i \in 1..Len(list) : \A j \in (i + 1)..Len(list) :
        (EntryPath(sec, list[i]) # <<>> /\ EntryPath(sec, list[j]) # <<>>)
            => ~SamePath(EntryPath(sec, list[i])[1], EntryPath(sec, list[j])[1])

\* C28: after a completed snapshot, in either mode, no two entries of a
\* scanned section have paths that are equal up to letter case.
C28_NoDuplicates ==
    SnapshotDone =>
        \A sec \in {sec \in SectionNames : Scanned(sec)} : NoTwins(sec, After(sec))

\* the same where the section had no such entries before (or the mode is
\* CLEAN) and no two paths discovered are equal up to letter case
NoDuplicatesUnlessGiven ==
    SnapshotDone =>
        \A sec \in {sec \in SectionNames : Scanned(sec)} :
            \E s \in {View(sec)} :
                (/\ NoTwins(sec, s.existing)
                 /\ \A i \in 1..Len(s.found) : \A j \in (i + 1)..Len(s.found) :
                       ~SamePath(s.found[i], s.found[j]))
                    => NoTwins(sec, s.after)

\* the same files and directories, each directory enumerated in the opposite
\* order
RECURSIVE Reversed(_)
Reversed(node) ==
    [node EXCEPT !.kids = [i \in 1..Len(node.kids) |->
                              Reversed(node.kids[Len(node.kids) + 1 - i])]]

\* what the last snapshot would have made of the document it started from,
\* had the file system enumerated every directory in the opposite order
Otherwise == RunHandlers(last.before, BaseFolder(Reversed(disk)), last.clean)

\* C29: the section lists that a completed snapshot leaves, entries and
\* order, are those it leaves when the file system enumerates the entries of
\* each directory in another order.
C29_EnumerationOrder ==
    SnapshotDone =>
        \E other \in {Otherwise} :
            /\ ~other.raised
            /\ \A sec \in SectionNames :
                  SectionOf(other.tree_data, sec) = SectionOf(plist_data, sec)

\* the same for ACPI.Add, UEFI.Drivers and Misc.Tools where no two paths
\* discovered are equal up to letter case
FilesInAnyOrder ==
    SnapshotDone =>
        \E other \in {Otherwise} :
            /\ ~other.raised
            /\ \A sec \in {sec \in {"ACPI", "Drivers", "Tools"} : Scanned(sec)} :
                  \E found \in {Discovered(sec)} :
                      (\A i \in 1..Len(found) : \A j \in (i + 1)..Len(found) :
                          ~SamePath(found[i], found[j]))
                      => SectionOf(other.tree_data, sec) = SectionOf(plist_data, sec)

\* a step in which Save or Save As ran into an error
FailedSave == last'.op \in {"save", "save_as"} /\ last'.outcome = "error"

\* C30: when the write of Save or Save As fails (or Save As is cancelled),
\* current_file names the file it named before, and the tree and plist_data
\* are as they were.
C30_FailedSave ==
    [][FailedSave =>
          /\ current_file' = current_file
          /\ tree' = tree
          /\ plist_data' = plist_data]_vars

\* the same for Save alone, and for the document under Save As
FailedSaveKeepsDocument ==
    [][FailedSave =>
          /\ last'.op = "save" => current_file' = current_file
          /\ tree' = tree
          /\ plist_data' = plist_data]_vars

====
